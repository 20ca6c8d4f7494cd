--------------------- MODULE InventoryPublishing_proofs ---------------------
(***************************************************************************)
(* Theorems about InventoryPublishing, for any number of publishes in      *)
(* flight, Swarms and files.  publishMu makes a running call's Config the  *)
(* stored one, from which the revisions follow; the snapshot row's lock    *)
(* makes what a Replace has deleted the whole of what is there.            *)
(***************************************************************************)
EXTENDS InventoryPublishing, TLAPS

Configs == [swarm : Swarms \cup {NoSwarm}, revision : Nat]

Removals == [stage : {"idle", "blocked", "items", "snapshot"},
             swarm : Swarms \cup {NoSwarm}, gone : SUBSET Files, late : BOOLEAN]

TypeOK ==
  /\ config \in Configs /\ publishMu \in Calls \cup {NoCall}
  /\ call \in [Calls -> {"idle", "queued", "scanning", "publishing", "returned"}]
  /\ origin \in [Calls -> {"none", "timer", "click", "join"}]
  /\ base \in [Calls -> Configs]
  /\ phase \in {"idle", "scanning", "publishing", "done", "error"}
  /\ join \in [stage : {"idle", "asked", "enrolled"},
               swarm : Swarms \cup {NoSwarm}, base : Configs]
  /\ tx \in [Calls -> {"none", "arrived", "checked", "upserted", "deleted", "ok",
                       "refused"}]
  /\ files \in [Calls -> SUBSET Files] /\ gone \in [Calls -> SUBSET Files]
  /\ member \subseteq Swarms
  /\ snapshot \in [Swarms -> [revision : Nat, files : SUBSET Files]]
  /\ rows \in [Swarms -> SUBSET Files]
  /\ removal \in Removals
  /\ saved \subseteq (Swarms \cup {NoSwarm}) \X Nat /\ removed \subseteq Swarms

\* What a call, a request, a JoinSwarm and a removal are about.
Fits ==
  /\ \A p \in Calls :
       /\ call[p] \in {"queued", "scanning"} => tx[p] = "none"
       /\ call[p] \in Running => base[p].swarm \in Swarms
       /\ tx[p] # "none" => base[p].swarm \in Swarms
  /\ join.stage # "idle" => join.swarm \in Swarms
  /\ removal.stage # "idle" => removal.swarm \in Swarms

\* Who scans or sends holds publishMu, and nobody else does.
Locked == \A p \in Calls : call[p] \in Running <=> publishMu = p

\* Until a JoinSwarm crosses a publish: who runs has loaded what is stored,
\* and nobody a later revision; every revision saved is the stored one or before.
LoadedIsStored ==
  ~crossed =>
    /\ \A p \in Calls : /\ base[p].revision <= config.revision
                        /\ call[p] \in Running => base[p] = config
    /\ \A r \in saved : r[2] <= config.revision

\* The snapshot row's lock: one Replace of a Swarm at a time, and until the
\* Swarm was left it has deleted all there is.
OneReplace ==
  /\ \A p, q \in Calls :
       p # q /\ tx[p] \in InTransaction /\ tx[q] \in InTransaction =>
         Swarm(p) # Swarm(q)
  /\ \A p \in Calls : tx[p] = "deleted" /\ Swarm(p) \notin removed =>
       gone[p] = rows[Swarm(p)]

IInv ==
  /\ TypeOK /\ Fits /\ Locked /\ LoadedIsStored /\ OneReplace
  /\ SnapshotDescribesRows /\ RevisionsAreFresh /\ HostIsOneAhead /\ StatusIsLive

-----------------------------------------------------------------------------
\* The SMT encoding does not know the members of BOOLEAN by itself.
LEMMA Booleans == TRUE \in BOOLEAN /\ FALSE \in BOOLEAN
  OBVIOUS

LEMMA Blank ==
  /\ NotJoined \in Configs /\ NotJoined.revision = 0
  /\ \A n \in Nat : 0 <= n
  BY DEF NotJoined, Configs

\* The Config a publish saves, and the one a JoinSwarm saves.
LEMMA Later ==
  ASSUME NEW c \in Configs
  PROVE  LET new == [c EXCEPT !.revision = @ + 1] IN
         /\ new \in Configs /\ new.swarm = c.swarm
         /\ new.revision = c.revision + 1
  BY DEF Configs
LEMMA Elsewhere ==
  ASSUME NEW c \in Configs, NEW s \in Swarms
  PROVE  LET new == [c EXCEPT !.swarm = s] IN
         /\ new \in Configs /\ new.swarm = s /\ new.revision = c.revision
         /\ c.swarm = s => new = c
  BY DEF Configs

\* What the end of a call leaves: a request the Host still works on.
Ends(p) ==
  /\ publishMu' = NoCall /\ call'[p] \in {"idle", "returned"}
  /\ tx'[p] = IF tx[p] \in {"ok", "refused"} THEN "none" ELSE tx[p]
  /\ base'[p] = IF tx[p] \in {"ok", "refused", "none"} THEN NotJoined ELSE base[p]
  /\ \A q \in Calls \ {p} :
       call'[q] = call[q] /\ tx'[q] = tx[q] /\ base'[q] = base[q]
  /\ UNCHANGED <<triggering, join, gone, tables, removal>>
\* What the Host's answer leaves: nothing, if the call has ended.
Answers(p, what) ==
  /\ tx'[p] = IF call[p] = "publishing" THEN what ELSE "none"
  /\ base'[p] = IF call[p] = "publishing" THEN base[p] ELSE NotJoined
  /\ \A q \in Calls \ {p} :
       tx'[q] = tx[q] /\ base'[q] = base[q] /\ gone'[q] = gone[q]
  /\ UNCHANGED <<config, publishMu, call, origin, phase, triggering, join>>

\* The types of what the two write.
CallsTyped ==
  /\ call \in [Calls -> {"idle", "queued", "scanning", "publishing", "returned"}]
  /\ origin \in [Calls -> {"none", "timer", "click", "join"}]
  /\ base \in [Calls -> Configs]
  /\ tx \in [Calls -> {"none", "arrived", "checked", "upserted", "deleted", "ok",
                       "refused"}]
  /\ files \in [Calls -> SUBSET Files] /\ gone \in [Calls -> SUBSET Files]

LEMMA ReleaseEnds ==
  ASSUME TypeOK, NEW p \in Calls, Release(p)
  PROVE  Ends(p) /\ CallsTyped'
  BY Blank DEF Release, Ends, TypeOK, CallsTyped

LEMMA AnswerAnswers ==
  ASSUME TypeOK, NEW p \in Calls, NEW what \in {"ok", "refused"}, Answer(p, what)
  PROVE  Answers(p, what) /\ CallsTyped'
  BY Blank DEF Answer, Answers, TypeOK, CallsTyped

-----------------------------------------------------------------------------
\* Every step leaves what the program keeps of its types.
LEMMA StepTyped ==
  ASSUME TypeOK, Fits, [Next]_vars
  PROVE  TypeOK'
  <1>1. ASSUME NEW p \in Calls, AutoPublish(p) PROVE TypeOK'
    BY <1>1, Blank, Booleans
    DEF AutoPublish, Queue, Free, TypeOK, Removals, bridge, requests,
          tables, history
  <1>2. ASSUME NEW p \in Calls, Trigger(p) PROVE TypeOK'
    BY <1>2, Blank, Booleans
    DEF Trigger, Queue, Free, TypeOK, Removals, bridge, requests,
          tables, history
  <1>3. ASSUME NEW p \in Calls, TriggerDone(p) PROVE TypeOK'
    BY <1>3, Blank, Booleans
    DEF TriggerDone, TypeOK, Removals, bridge, requests, tables, history
  <1>4. ASSUME NEW p \in Calls, Begin(p) PROVE TypeOK'
    <2>1. CASE config.swarm # NoSwarm
      BY <1>4, <2>1 DEF Begin, End, TypeOK, requests, tables, history
    <2>2. CASE config.swarm = NoSwarm
      <3>1. Release(p) /\ UNCHANGED <<config, history>> /\ phase' = "error"
        BY <1>4, <2>2 DEF Begin, End
      <3>2. Ends(p) /\ CallsTyped'
        BY <3>1, ReleaseEnds
      <3> QED
        BY <3>1, <3>2 DEF TypeOK, Ends, CallsTyped, tables, history
    <2> QED
      BY <2>1, <2>2
  <1>5. ASSUME NEW p \in Calls, Send(p) PROVE TypeOK'
    BY <1>5, Blank, Booleans
    DEF Send, TypeOK, Removals, bridge, requests, tables, history
  <1>6. ASSUME NEW p \in Calls, NothingSent(p) PROVE TypeOK'
    <2>1. Release(p) /\ UNCHANGED <<config, history>> /\ phase' \in {"done", "error"}
      BY <1>6 DEF NothingSent, End
    <2>2. Ends(p) /\ CallsTyped'
      BY <2>1, ReleaseEnds
    <2> QED
      BY <2>1, <2>2 DEF TypeOK, Ends, CallsTyped, tables, history
  <1>7. ASSUME NEW p \in Calls, Save(p) PROVE TypeOK'
    <2> DEFINE new == [base[p] EXCEPT !.revision = @ + 1]
    <2>1. base[p] \in Configs
      BY DEF TypeOK
    <2>2. new \in Configs /\ <<new.swarm, new.revision>> \in (Swarms \cup {NoSwarm}) \X Nat
      BY <2>1, Later DEF Configs
    <2>3. /\ config' = new /\ saved' = saved \cup {<<new.swarm, new.revision>>}
          /\ Release(p) /\ phase' = "done" /\ UNCHANGED removed
      BY <1>7 DEF Save, End
    <2> HIDE DEF new
    <2>4. Ends(p) /\ CallsTyped'
      BY <2>3, ReleaseEnds
    <2> QED
      BY <2>2, <2>3, <2>4 DEF TypeOK, Ends, CallsTyped, tables
  <1>8. ASSUME NEW p \in Calls, SaveFails(p) PROVE TypeOK'
    <2>1. Release(p) /\ UNCHANGED <<config, history>> /\ phase' \in {"done", "error"}
      BY <1>8 DEF SaveFails, End
    <2>2. Ends(p) /\ CallsTyped'
      BY <2>1, ReleaseEnds
    <2> QED
      BY <2>1, <2>2 DEF TypeOK, Ends, CallsTyped, tables, history
  <1>9. ASSUME NEW p \in Calls, Refused(p) PROVE TypeOK'
    <2>1. Release(p) /\ UNCHANGED <<config, history>> /\ phase' \in {"done", "error"}
      BY <1>9 DEF Refused, End
    <2>2. Ends(p) /\ CallsTyped'
      BY <2>1, ReleaseEnds
    <2> QED
      BY <2>1, <2>2 DEF TypeOK, Ends, CallsTyped, tables, history
  <1>10. ASSUME NEW p \in Calls, GiveUp(p) PROVE TypeOK'
    <2>1. Release(p) /\ UNCHANGED <<config, history>> /\ phase' \in {"done", "error"}
      BY <1>10 DEF GiveUp, End
    <2>2. Ends(p) /\ CallsTyped'
      BY <2>1, ReleaseEnds
    <2> QED
      BY <2>1, <2>2 DEF TypeOK, Ends, CallsTyped, tables, history
  <1>11. ASSUME NEW p \in Calls, Refuse(p) PROVE TypeOK'
    <2>1. Answer(p, "refused") /\ UNCHANGED <<tables, removal, history>>
      BY <1>11 DEF Refuse
    <2>2. Answers(p, "refused") /\ CallsTyped'
      BY <2>1, AnswerAnswers
    <2> QED
      BY <2>1, <2>2 DEF TypeOK, Answers, CallsTyped, tables, history
  <1>12. ASSUME NEW p \in Calls, CheckMember(p) PROVE TypeOK'
    BY <1>12, Blank, Booleans
    DEF CheckMember, TypeOK, Removals, bridge, requests, tables, history
  <1>13. ASSUME NEW p \in Calls, Upsert(p) PROVE TypeOK'
    BY <1>13, Blank, Booleans
    DEF Upsert, TypeOK, Removals, bridge, requests, tables, history
  <1>14. ASSUME NEW p \in Calls, DeleteItems(p) PROVE TypeOK'
    <2>1. rows[Swarm(p)] \subseteq Files
      BY <1>14 DEF DeleteItems, Fits, Swarm, TypeOK
    <2> HIDE DEF Swarm
    <2> QED
      BY <1>14, <2>1 DEF DeleteItems, TypeOK, bridge, tables, history
  <1>15. ASSUME NEW p \in Calls, Commit(p) PROVE TypeOK'
    <2> DEFINE s == Swarm(p)
               to == [revision |-> base[p].revision + 1, files |-> files[p]]
    <2>1. s \in Swarms /\ base[p] \in Configs /\ files[p] \subseteq Files
      BY <1>15 DEF Commit, Fits, Swarm, TypeOK
    <2>2. to \in [revision : Nat, files : SUBSET Files]
      BY <2>1 DEF Configs
    <2>3. /\ Answer(p, "ok") /\ UNCHANGED <<member, history>>
          /\ snapshot' = [snapshot EXCEPT ![s] = to]
          /\ rows' = [rows EXCEPT ![s] = (@ \ gone[p]) \cup files[p]]
          /\ removal' = [removal EXCEPT !.late = @ \/ (removal.stage = "blocked"
                                                       /\ removal.swarm = s)]
      BY <1>15 DEF Commit
    <2> HIDE DEF s, to
    <2>4. Answers(p, "ok") /\ CallsTyped'
      BY <2>3, AnswerAnswers
    <2>5. /\ snapshot' \in [Swarms -> [revision : Nat, files : SUBSET Files]]
          /\ rows' \in [Swarms -> SUBSET Files]
      BY <2>1, <2>2, <2>3 DEF TypeOK
    <2>6. ASSUME NEW b \in BOOLEAN, NEW r \in Removals
          PROVE  [r EXCEPT !.late = b] \in Removals
      <3>1. [r EXCEPT !.late = TRUE] \in Removals /\ [r EXCEPT !.late = FALSE] \in Removals
        BY Booleans DEF Removals
      <3>2. CASE b = TRUE
        BY <3>1, <3>2, Zenon
      <3>3. CASE b = FALSE
        BY <3>1, <3>3, Zenon
      <3> QED
        BY <3>2, <3>3, Zenon
    <2>7. (removal.late \/ (removal.stage = "blocked" /\ removal.swarm = s)) \in BOOLEAN
      BY Zenon
    <2>8. removal' \in Removals
      BY <2>3, <2>6, <2>7, Zenon DEF TypeOK
    <2> QED
      BY <2>3, <2>4, <2>5, <2>8 DEF TypeOK, Answers, CallsTyped, history
  <1>16. ASSUME NEW p \in Calls, Rollback(p) PROVE TypeOK'
    <2>1. Answer(p, "refused") /\ UNCHANGED <<tables, removal, history>>
      BY <1>16 DEF Rollback
    <2>2. Answers(p, "refused") /\ CallsTyped'
      BY <2>1, AnswerAnswers
    <2> QED
      BY <2>1, <2>2 DEF TypeOK, Answers, CallsTyped, tables, history
  <1>17. ASSUME NEW p \in Calls, Deadlock(p) PROVE TypeOK'
    <2>1. UNCHANGED <<tables, history>>
      BY <1>17 DEF Deadlock
    <2>2. CASE Answer(p, "refused") /\ UNCHANGED removal
      <3>1. Answers(p, "refused") /\ CallsTyped'
        BY <2>2, AnswerAnswers
      <3> QED
        BY <2>1, <2>2, <3>1 DEF TypeOK, Answers, CallsTyped, tables, history
    <2>3. CASE removal' = NoRemoval /\ UNCHANGED <<bridge, requests>>
      BY <2>1, <2>3, Booleans DEF TypeOK, Removals, NoRemoval, bridge, requests, tables, history
    <2> QED
      BY <1>17, <2>2, <2>3 DEF Deadlock
  <1>18. ASSUME NEW s \in Swarms, StartJoin(s) PROVE TypeOK'
    BY <1>18, Blank, Booleans
    DEF StartJoin, TypeOK, Removals, bridge, requests, tables, history
  <1>19. CASE Enroll
    <2>1. join.swarm \in Swarms
      BY <1>19 DEF Enroll, Fits
    <2> QED
      BY <1>19, <2>1 DEF Enroll, TypeOK, requests, history
  <1>20. CASE SaveJoin
    <2>1. config' \in Configs
      BY <1>20, Elsewhere DEF SaveJoin, Fits, TypeOK
    <2>2. PICK p \in Calls : Queue(p, "join")
      BY <1>20 DEF SaveJoin
    <2>3. NoJoin \in [stage : {"idle", "asked", "enrolled"},
                      swarm : Swarms \cup {NoSwarm}, base : Configs]
      BY Blank DEF NoJoin
    <2> QED
      BY <1>20, <2>1, <2>2, <2>3 DEF SaveJoin, Queue, TypeOK, requests, tables
  <1>21. CASE JoinFails
    <2>1. NoJoin \in [stage : {"idle", "asked", "enrolled"},
                      swarm : Swarms \cup {NoSwarm}, base : Configs]
      BY Blank DEF NoJoin
    <2> QED
      BY <1>21, <2>1 DEF JoinFails, TypeOK, requests, tables, history
  <1>22. CASE BridgeCrash
    <2>1. NoJoin \in [stage : {"idle", "asked", "enrolled"},
                      swarm : Swarms \cup {NoSwarm}, base : Configs]
      BY Blank DEF NoJoin
    <2> QED
      BY <1>22, <2>1, Blank DEF BridgeCrash, TypeOK, tables, history
  <1>23. ASSUME NEW s \in Swarms, RemoveItems(s) PROVE TypeOK'
    BY <1>23, Blank, Booleans
    DEF RemoveItems, TypeOK, Removals, bridge, requests, tables, history
  <1>24. CASE RemoveItemsResumed
    <2> DEFINE held == IF removal.late THEN {} ELSE rows[removal.swarm]
    <2>1. held \in SUBSET Files
      BY <1>24 DEF RemoveItemsResumed, Fits, TypeOK
    <2>2. /\ removal' = [removal EXCEPT !.stage = "items", !.late = FALSE,
                                         !.gone = held]
          /\ UNCHANGED <<bridge, requests, tables, history>>
      BY <1>24 DEF RemoveItemsResumed
    <2> HIDE DEF held
    <2> QED
      BY <2>1, <2>2, Booleans DEF TypeOK, Removals, bridge, requests, tables,
             history
  <1>25. CASE RemoveSnapshot
    BY <1>25, Blank, Booleans
    DEF RemoveSnapshot, TypeOK, Removals, bridge, requests, tables,
          history
  <1>26. CASE RemoveMember
    <2>1. /\ removal.swarm \in Swarms /\ removal' = NoRemoval
          /\ UNCHANGED <<bridge, requests, saved>>
      BY <1>26 DEF RemoveMember, Fits
    <2>2. /\ NoSnapshot \in [revision : Nat, files : SUBSET Files]
          /\ NoRemoval \in Removals
      BY Booleans DEF NoSnapshot, NoRemoval, Removals
    <2> DEFINE s == removal.swarm  held == removal.gone
    <2>3. \/ UNCHANGED <<tables, removed>>
          \/ /\ member' = member \ {s} /\ removed' = removed \cup {s}
             /\ snapshot' = [snapshot EXCEPT ![s] = NoSnapshot]
             /\ rows' = [rows EXCEPT ![s] = @ \ held]
      BY <1>26 DEF RemoveMember
    <2> HIDE DEF s, held
    <2>4. /\ member' \subseteq Swarms /\ removed' \subseteq Swarms
          /\ snapshot' \in [Swarms -> [revision : Nat, files : SUBSET Files]]
          /\ rows' \in [Swarms -> SUBSET Files]
      <3>1. s \in Swarms
        BY <2>1 DEF s
      <3>2. member' \subseteq Swarms /\ removed' \subseteq Swarms
        BY <2>3, <3>1 DEF TypeOK, tables
      <3>3. rows' \in [Swarms -> SUBSET Files]
        BY <2>3, <3>1 DEF TypeOK, tables
      <3>4. snapshot' \in [Swarms -> [revision : Nat, files : SUBSET Files]]
        BY <2>2, <2>3, <3>1 DEF TypeOK, tables
      <3> QED
        BY <3>2, <3>3, <3>4
    <2> QED
      BY <2>1, <2>2, <2>4 DEF TypeOK, bridge, requests
  <1>27. CASE UNCHANGED vars
    BY <1>27 DEF vars, TypeOK, Removals, bridge, requests, tables,
        history
  <1> QED
    BY <1>1, <1>2, <1>3, <1>4, <1>5, <1>6, <1>7, <1>8, <1>9,
       <1>10, <1>11, <1>12, <1>13, <1>14, <1>15, <1>16, <1>17, <1>18,
       <1>19, <1>20, <1>21, <1>22, <1>23, <1>24, <1>25, <1>26, <1>27
    DEF Next, Publish, Handle, Remove

\* A call's Config has a Swarm for as long as a request needs one.
LEMMA StepFits ==
  ASSUME TypeOK, Fits, Locked, [Next]_vars
  PROVE  Fits'
  <1>a. /\ call \in [Calls -> {"idle", "queued", "scanning", "publishing", "returned"}]
        /\ tx \in [Calls -> {"none", "arrived", "checked", "upserted", "deleted", "ok",
                            "refused"}]
        /\ base \in [Calls -> Configs] /\ config \in Configs
    BY DEF TypeOK
  <1>1. ASSUME NEW p \in Calls, AutoPublish(p) PROVE Fits'
    BY <1>1, <1>a
    DEF AutoPublish, Queue, Free, Fits, Running, Swarm, bridge,
          requests, tables, history
  <1>2. ASSUME NEW p \in Calls, Trigger(p) PROVE Fits'
    BY <1>2, <1>a
    DEF Trigger, Queue, Free, Fits, Running, Swarm, bridge, requests,
          tables, history
  <1>3. ASSUME NEW p \in Calls, TriggerDone(p) PROVE Fits'
    BY <1>3, <1>a
    DEF TriggerDone, Fits, Running, Swarm, bridge, requests, tables,
          history
  <1>4. ASSUME NEW p \in Calls, Begin(p) PROVE Fits'
    <2>1. CASE config.swarm # NoSwarm
      BY <1>4, <1>a, <2>1 DEF Begin, End, Configs, Fits, Running, requests
    <2>2. CASE config.swarm = NoSwarm
      <3>1. Ends(p) /\ call[p] = "queued"
        BY <1>4, <2>2, ReleaseEnds DEF Begin, End
      <3> QED
        BY <3>1 DEF Ends, Fits, Running
    <2> QED
      BY <2>1, <2>2
  <1>5. ASSUME NEW p \in Calls, Send(p) PROVE Fits'
    BY <1>5, <1>a
    DEF Send, Fits, Running, Swarm, bridge, requests, tables, history
  <1>6. ASSUME NEW p \in Calls, NothingSent(p) PROVE Fits'
    <2>1. Release(p) => Ends(p)
      BY ReleaseEnds
    <2> QED
      BY <1>6, <2>1, <1>a
      DEF NothingSent, End, Ends, Fits, Running, Swarm, bridge,
          requests, tables, history
  <1>7. ASSUME NEW p \in Calls, Save(p) PROVE Fits'
    <2>1. Release(p) => Ends(p)
      BY ReleaseEnds
    <2> QED
      BY <1>7, <2>1, <1>a
      DEF Save, End, Ends, Fits, Running, Swarm, bridge, requests,
          tables, history
  <1>8. ASSUME NEW p \in Calls, SaveFails(p) PROVE Fits'
    <2>1. Release(p) => Ends(p)
      BY ReleaseEnds
    <2> QED
      BY <1>8, <2>1, <1>a
      DEF SaveFails, End, Ends, Fits, Running, Swarm, bridge, requests,
          tables, history
  <1>9. ASSUME NEW p \in Calls, Refused(p) PROVE Fits'
    <2>1. Release(p) => Ends(p)
      BY ReleaseEnds
    <2> QED
      BY <1>9, <2>1, <1>a
      DEF Refused, End, Ends, Fits, Running, Swarm, bridge, requests,
          tables, history
  <1>10. ASSUME NEW p \in Calls, GiveUp(p) PROVE Fits'
    <2>1. Release(p) => Ends(p)
      BY ReleaseEnds
    <2> QED
      BY <1>10, <2>1, <1>a
      DEF GiveUp, End, Ends, Fits, Running, Swarm, bridge, requests,
          tables, history
  <1>11. ASSUME NEW p \in Calls, Refuse(p) PROVE Fits'
    <2>1. Answer(p, "refused") => Answers(p, "refused")
      BY AnswerAnswers
    <2> QED
      BY <1>11, <2>1, <1>a
      DEF Refuse, Answers, Fits, Running, Swarm, bridge, requests,
          tables, history
  <1>12. ASSUME NEW p \in Calls, CheckMember(p) PROVE Fits'
    BY <1>12, <1>a
    DEF CheckMember, Fits, Running, Swarm, bridge, requests, tables,
          history
  <1>13. ASSUME NEW p \in Calls, Upsert(p) PROVE Fits'
    BY <1>13, <1>a
    DEF Upsert, Fits, Running, Swarm, bridge, requests, tables, history
  <1>14. ASSUME NEW p \in Calls, DeleteItems(p) PROVE Fits'
    BY <1>14, <1>a
    DEF DeleteItems, Fits, Running, Swarm, bridge, requests, tables,
          history
  <1>15. ASSUME NEW p \in Calls, Commit(p) PROVE Fits'
    <2>1. Answer(p, "ok") => Answers(p, "ok")
      BY AnswerAnswers
    <2> QED
      BY <1>15, <2>1, <1>a
      DEF Commit, Answers, Fits, Running, Swarm, bridge, requests,
          tables, history
  <1>16. ASSUME NEW p \in Calls, Rollback(p) PROVE Fits'
    <2>1. Answer(p, "refused") => Answers(p, "refused")
      BY AnswerAnswers
    <2> QED
      BY <1>16, <2>1, <1>a
      DEF Rollback, InTransaction, Answers, Fits, Running, Swarm,
          bridge, requests, tables, history
  <1>17. ASSUME NEW p \in Calls, Deadlock(p) PROVE Fits'
    <2>1. CASE Answer(p, "refused") /\ UNCHANGED removal
      <3>1. Answers(p, "refused")
        BY <2>1, AnswerAnswers
      <3> QED
        BY <1>17, <1>a, <2>1, <3>1 DEF Deadlock, Answers, Fits, Running
    <2>2. CASE removal' = NoRemoval /\ UNCHANGED <<bridge, requests>>
      BY <2>2 DEF NoRemoval, Fits, bridge, requests
    <2> QED
      BY <1>17, <2>1, <2>2 DEF Deadlock
  <1>18. ASSUME NEW s \in Swarms, StartJoin(s) PROVE Fits'
    BY <1>18, <1>a
    DEF StartJoin, Fits, Running, Swarm, bridge, requests, tables,
          history
  <1>19. CASE Enroll
    BY <1>19, <1>a
    DEF Enroll, Fits, Running, Swarm, bridge, requests, tables, history
  <1>20. CASE SaveJoin
    <2>1. PICK p \in Calls : Queue(p, "join")
      BY <1>20 DEF SaveJoin
    <2> QED
      BY <1>20, <1>a, <2>1 DEF SaveJoin, Queue, Free, NoJoin, Fits, Running, requests
  <1>21. CASE JoinFails
    BY <1>21 DEF JoinFails, NoJoin, Fits, requests
  <1>22. CASE BridgeCrash
    <2>1. \A p \in Calls : /\ call'[p] = "idle" /\ (tx'[p] # "none" => tx[p] # "none")
                          /\ base'[p] = IF tx'[p] = "none" THEN NotJoined ELSE base[p]
      BY <1>22 DEF BridgeCrash
    <2>2. join'.stage = "idle" /\ UNCHANGED removal
      BY <1>22 DEF BridgeCrash, NoJoin
    <2> QED
      BY <2>1, <2>2 DEF Fits, Running
  <1>23. ASSUME NEW s \in Swarms, RemoveItems(s) PROVE Fits'
    BY <1>23, <1>a
    DEF RemoveItems, Fits, Running, Swarm, bridge, requests, tables,
          history
  <1>24. CASE RemoveItemsResumed
    BY <1>24, <1>a
    DEF RemoveItemsResumed, Fits, Running, Swarm, bridge, requests,
          tables, history
  <1>25. CASE RemoveSnapshot
    BY <1>25, <1>a
    DEF RemoveSnapshot, Fits, Running, Swarm, bridge, requests, tables,
          history
  <1>26. CASE RemoveMember
    BY <1>26 DEF RemoveMember, NoRemoval, Fits, bridge, requests
  <1>27. CASE UNCHANGED vars
    BY <1>27 DEF vars, Fits, Running, Swarm, bridge, requests, tables,
        history
  <1> QED
    BY <1>1, <1>2, <1>3, <1>4, <1>5, <1>6, <1>7, <1>8, <1>9,
       <1>10, <1>11, <1>12, <1>13, <1>14, <1>15, <1>16, <1>17, <1>18,
       <1>19, <1>20, <1>21, <1>22, <1>23, <1>24, <1>25, <1>26, <1>27
    DEF Next, Publish, Handle, Remove

\* Only the holder of publishMu gives it back.
LEMMA LockStep ==
  ASSUME TypeOK, Locked, [Next]_vars
  PROVE  Locked'
  <1>a. /\ call \in [Calls -> {"idle", "queued", "scanning", "publishing", "returned"}]
        /\ tx \in [Calls -> {"none", "arrived", "checked", "upserted", "deleted", "ok",
                            "refused"}]
        /\ base \in [Calls -> Configs] /\ config \in Configs
    BY DEF TypeOK
  <1>1. ASSUME NEW p \in Calls, AutoPublish(p) PROVE Locked'
    BY <1>1, <1>a, NobodyIsApart
    DEF AutoPublish, Queue, Free, Locked, Running, bridge, requests,
          tables, history
  <1>2. ASSUME NEW p \in Calls, Trigger(p) PROVE Locked'
    BY <1>2, <1>a, NobodyIsApart
    DEF Trigger, Queue, Free, Locked, Running, bridge, requests, tables,
          history
  <1>3. ASSUME NEW p \in Calls, TriggerDone(p) PROVE Locked'
    BY <1>3, <1>a, NobodyIsApart
    DEF TriggerDone, Locked, Running, bridge, requests, tables, history
  <1>4. ASSUME NEW p \in Calls, Begin(p) PROVE Locked'
    <2>1. Release(p) => Ends(p)
      BY ReleaseEnds
    <2> QED
      BY <1>4, <2>1, <1>a, NobodyIsApart
      DEF Begin, End, Ends, Locked, Running, bridge, requests, tables,
          history
  <1>5. ASSUME NEW p \in Calls, Send(p) PROVE Locked'
    BY <1>5, <1>a, NobodyIsApart
    DEF Send, Locked, Running, bridge, requests, tables, history
  <1>6. ASSUME NEW p \in Calls, NothingSent(p) PROVE Locked'
    <2>1. Release(p) => Ends(p)
      BY ReleaseEnds
    <2> QED
      BY <1>6, <2>1, <1>a, NobodyIsApart
      DEF NothingSent, End, Ends, Locked, Running, bridge, requests,
          tables, history
  <1>7. ASSUME NEW p \in Calls, Save(p) PROVE Locked'
    <2>1. Release(p) => Ends(p)
      BY ReleaseEnds
    <2> QED
      BY <1>7, <2>1, <1>a, NobodyIsApart
      DEF Save, End, Ends, Locked, Running, bridge, requests, tables,
          history
  <1>8. ASSUME NEW p \in Calls, SaveFails(p) PROVE Locked'
    <2>1. Release(p) => Ends(p)
      BY ReleaseEnds
    <2> QED
      BY <1>8, <2>1, <1>a, NobodyIsApart
      DEF SaveFails, End, Ends, Locked, Running, bridge, requests,
          tables, history
  <1>9. ASSUME NEW p \in Calls, Refused(p) PROVE Locked'
    <2>1. Release(p) => Ends(p)
      BY ReleaseEnds
    <2> QED
      BY <1>9, <2>1, <1>a, NobodyIsApart
      DEF Refused, End, Ends, Locked, Running, bridge, requests, tables,
          history
  <1>10. ASSUME NEW p \in Calls, GiveUp(p) PROVE Locked'
    <2>1. Release(p) => Ends(p)
      BY ReleaseEnds
    <2> QED
      BY <1>10, <2>1, <1>a, NobodyIsApart
      DEF GiveUp, End, Ends, Locked, Running, bridge, requests, tables,
          history
  <1>11. ASSUME NEW p \in Calls, Refuse(p) PROVE Locked'
    <2>1. Answer(p, "refused") => Answers(p, "refused")
      BY AnswerAnswers
    <2> QED
      BY <1>11, <2>1, <1>a, NobodyIsApart
      DEF Refuse, Answers, Locked, Running, bridge, requests, tables,
          history
  <1>12. ASSUME NEW p \in Calls, CheckMember(p) PROVE Locked'
    BY <1>12, <1>a, NobodyIsApart
    DEF CheckMember, Locked, Running, bridge, requests, tables, history
  <1>13. ASSUME NEW p \in Calls, Upsert(p) PROVE Locked'
    BY <1>13, <1>a, NobodyIsApart
    DEF Upsert, Locked, Running, bridge, requests, tables, history
  <1>14. ASSUME NEW p \in Calls, DeleteItems(p) PROVE Locked'
    BY <1>14, <1>a, NobodyIsApart
    DEF DeleteItems, Locked, Running, bridge, requests, tables, history
  <1>15. ASSUME NEW p \in Calls, Commit(p) PROVE Locked'
    <2>1. Answer(p, "ok") => Answers(p, "ok")
      BY AnswerAnswers
    <2> QED
      BY <1>15, <2>1, <1>a, NobodyIsApart
      DEF Commit, Answers, Locked, Running, bridge, requests, tables,
          history
  <1>16. ASSUME NEW p \in Calls, Rollback(p) PROVE Locked'
    <2>1. Answer(p, "refused") => Answers(p, "refused")
      BY AnswerAnswers
    <2> QED
      BY <1>16, <2>1, <1>a, NobodyIsApart
      DEF Rollback, Answers, Locked, Running, bridge, requests, tables,
          history
  <1>17. ASSUME NEW p \in Calls, Deadlock(p) PROVE Locked'
    <2>1. Answer(p, "refused") => Answers(p, "refused")
      BY AnswerAnswers
    <2> QED
      BY <1>17, <2>1, <1>a, NobodyIsApart
      DEF Deadlock, NoRemoval, Answers, Locked, Running, bridge,
          requests, tables, history
  <1>18. ASSUME NEW s \in Swarms, StartJoin(s) PROVE Locked'
    BY <1>18, <1>a, NobodyIsApart
    DEF StartJoin, Locked, Running, bridge, requests, tables, history
  <1>19. CASE Enroll
    BY <1>19, <1>a, NobodyIsApart
    DEF Enroll, Locked, Running, bridge, requests, tables, history
  <1>20. CASE SaveJoin
    BY <1>20, <1>a, NobodyIsApart
    DEF SaveJoin, Queue, Free, Cross, NoJoin, Locked, Running, bridge,
          requests, tables, history
  <1>21. CASE JoinFails
    BY <1>21, <1>a, NobodyIsApart
    DEF JoinFails, NoJoin, Locked, Running, bridge, requests, tables,
          history
  <1>22. CASE BridgeCrash
    BY <1>22, <1>a, NobodyIsApart
    DEF BridgeCrash, NoJoin, Locked, Running, bridge, requests, tables,
          history
  <1>23. ASSUME NEW s \in Swarms, RemoveItems(s) PROVE Locked'
    BY <1>23, <1>a, NobodyIsApart
    DEF RemoveItems, Locked, Running, bridge, requests, tables, history
  <1>24. CASE RemoveItemsResumed
    BY <1>24, <1>a, NobodyIsApart
    DEF RemoveItemsResumed, Locked, Running, bridge, requests, tables,
          history
  <1>25. CASE RemoveSnapshot
    BY <1>25, <1>a, NobodyIsApart
    DEF RemoveSnapshot, Locked, Running, bridge, requests, tables,
          history
  <1>26. CASE RemoveMember
    BY <1>26, <1>a, NobodyIsApart
    DEF RemoveMember, NoRemoval, NoSnapshot, Locked, Running, bridge,
          requests, tables, history
  <1>27. CASE UNCHANGED vars
    BY <1>27 DEF vars, Locked, Running, bridge, requests, tables,
        history
  <1> QED
    BY <1>1, <1>2, <1>3, <1>4, <1>5, <1>6, <1>7, <1>8, <1>9,
       <1>10, <1>11, <1>12, <1>13, <1>14, <1>15, <1>16, <1>17, <1>18,
       <1>19, <1>20, <1>21, <1>22, <1>23, <1>24, <1>25, <1>26, <1>27
    DEF Next, Publish, Handle, Remove

\* The status is final exactly when no call needs it any more.
LEMMA StatusStep ==
  ASSUME TypeOK, Locked, StatusIsLive, [Next]_vars
  PROVE  StatusIsLive'
  <1>a. /\ call \in [Calls -> {"idle", "queued", "scanning", "publishing", "returned"}]
        /\ tx \in [Calls -> {"none", "arrived", "checked", "upserted", "deleted", "ok",
                            "refused"}]
        /\ base \in [Calls -> Configs] /\ config \in Configs
    BY DEF TypeOK
  <1>1. ASSUME NEW p \in Calls, AutoPublish(p) PROVE StatusIsLive'
    BY <1>1, <1>a, NobodyIsApart
    DEF AutoPublish, Queue, Free, Locked, StatusIsLive, Running, bridge,
          requests, tables, history
  <1>2. ASSUME NEW p \in Calls, Trigger(p) PROVE StatusIsLive'
    BY <1>2, <1>a, NobodyIsApart
    DEF Trigger, Queue, Free, Locked, StatusIsLive, Running, bridge,
          requests, tables, history
  <1>3. ASSUME NEW p \in Calls, TriggerDone(p) PROVE StatusIsLive'
    BY <1>3, <1>a, NobodyIsApart
    DEF TriggerDone, Locked, StatusIsLive, Running, bridge, requests,
          tables, history
  <1>4. ASSUME NEW p \in Calls, Begin(p) PROVE StatusIsLive'
    <2>1. Release(p) => Ends(p)
      BY ReleaseEnds
    <2> QED
      BY <1>4, <2>1, <1>a, NobodyIsApart
      DEF Begin, End, Ends, Locked, StatusIsLive, Running, bridge,
          requests, tables, history
  <1>5. ASSUME NEW p \in Calls, Send(p) PROVE StatusIsLive'
    BY <1>5, <1>a, NobodyIsApart
    DEF Send, Locked, StatusIsLive, Running, bridge, requests, tables,
          history
  <1>6. ASSUME NEW p \in Calls, NothingSent(p) PROVE StatusIsLive'
    <2>1. Release(p) => Ends(p)
      BY ReleaseEnds
    <2> QED
      BY <1>6, <2>1, <1>a, NobodyIsApart
      DEF NothingSent, End, Ends, Locked, StatusIsLive, Running, bridge,
          requests, tables, history
  <1>7. ASSUME NEW p \in Calls, Save(p) PROVE StatusIsLive'
    <2>1. Release(p) => Ends(p)
      BY ReleaseEnds
    <2> QED
      BY <1>7, <2>1, <1>a, NobodyIsApart
      DEF Save, End, Ends, Locked, StatusIsLive, Running, bridge,
          requests, tables, history
  <1>8. ASSUME NEW p \in Calls, SaveFails(p) PROVE StatusIsLive'
    <2>1. Release(p) => Ends(p)
      BY ReleaseEnds
    <2> QED
      BY <1>8, <2>1, <1>a, NobodyIsApart
      DEF SaveFails, End, Ends, Locked, StatusIsLive, Running, bridge,
          requests, tables, history
  <1>9. ASSUME NEW p \in Calls, Refused(p) PROVE StatusIsLive'
    <2>1. Release(p) => Ends(p)
      BY ReleaseEnds
    <2> QED
      BY <1>9, <2>1, <1>a, NobodyIsApart
      DEF Refused, End, Ends, Locked, StatusIsLive, Running, bridge,
          requests, tables, history
  <1>10. ASSUME NEW p \in Calls, GiveUp(p) PROVE StatusIsLive'
    <2>1. Release(p) => Ends(p)
      BY ReleaseEnds
    <2> QED
      BY <1>10, <2>1, <1>a, NobodyIsApart
      DEF GiveUp, End, Ends, Locked, StatusIsLive, Running, bridge,
          requests, tables, history
  <1>11. ASSUME NEW p \in Calls, Refuse(p) PROVE StatusIsLive'
    <2>1. Answer(p, "refused") => Answers(p, "refused")
      BY AnswerAnswers
    <2> QED
      BY <1>11, <2>1, <1>a, NobodyIsApart
      DEF Refuse, Answers, Locked, StatusIsLive, Running, bridge,
          requests, tables, history
  <1>12. ASSUME NEW p \in Calls, CheckMember(p) PROVE StatusIsLive'
    BY <1>12, <1>a, NobodyIsApart
    DEF CheckMember, Locked, StatusIsLive, Running, bridge, requests,
          tables, history
  <1>13. ASSUME NEW p \in Calls, Upsert(p) PROVE StatusIsLive'
    BY <1>13, <1>a, NobodyIsApart
    DEF Upsert, Locked, StatusIsLive, Running, bridge, requests, tables,
          history
  <1>14. ASSUME NEW p \in Calls, DeleteItems(p) PROVE StatusIsLive'
    BY <1>14, <1>a, NobodyIsApart
    DEF DeleteItems, Locked, StatusIsLive, Running, bridge, requests,
          tables, history
  <1>15. ASSUME NEW p \in Calls, Commit(p) PROVE StatusIsLive'
    <2>1. Answer(p, "ok") => Answers(p, "ok")
      BY AnswerAnswers
    <2> QED
      BY <1>15, <2>1, <1>a, NobodyIsApart
      DEF Commit, Answers, Locked, StatusIsLive, Running, bridge,
          requests, tables, history
  <1>16. ASSUME NEW p \in Calls, Rollback(p) PROVE StatusIsLive'
    <2>1. Answer(p, "refused") => Answers(p, "refused")
      BY AnswerAnswers
    <2> QED
      BY <1>16, <2>1, <1>a, NobodyIsApart
      DEF Rollback, Answers, Locked, StatusIsLive, Running, bridge,
          requests, tables, history
  <1>17. ASSUME NEW p \in Calls, Deadlock(p) PROVE StatusIsLive'
    <2>1. Answer(p, "refused") => Answers(p, "refused")
      BY AnswerAnswers
    <2> QED
      BY <1>17, <2>1, <1>a, NobodyIsApart
      DEF Deadlock, NoRemoval, Answers, Locked, StatusIsLive, Running,
          bridge, requests, tables, history
  <1>18. ASSUME NEW s \in Swarms, StartJoin(s) PROVE StatusIsLive'
    BY <1>18, <1>a, NobodyIsApart
    DEF StartJoin, Locked, StatusIsLive, Running, bridge, requests,
          tables, history
  <1>19. CASE Enroll
    BY <1>19, <1>a, NobodyIsApart
    DEF Enroll, Locked, StatusIsLive, Running, bridge, requests, tables,
          history
  <1>20. CASE SaveJoin
    BY <1>20, <1>a, NobodyIsApart
    DEF SaveJoin, Queue, Free, Cross, NoJoin, Locked, StatusIsLive,
          Running, bridge, requests, tables, history
  <1>21. CASE JoinFails
    BY <1>21, <1>a, NobodyIsApart
    DEF JoinFails, NoJoin, Locked, StatusIsLive, Running, bridge,
          requests, tables, history
  <1>22. CASE BridgeCrash
    BY <1>22, <1>a, NobodyIsApart
    DEF BridgeCrash, NoJoin, Locked, StatusIsLive, Running, bridge,
          requests, tables, history
  <1>23. ASSUME NEW s \in Swarms, RemoveItems(s) PROVE StatusIsLive'
    BY <1>23, <1>a, NobodyIsApart
    DEF RemoveItems, Locked, StatusIsLive, Running, bridge, requests,
          tables, history
  <1>24. CASE RemoveItemsResumed
    BY <1>24, <1>a, NobodyIsApart
    DEF RemoveItemsResumed, Locked, StatusIsLive, Running, bridge,
          requests, tables, history
  <1>25. CASE RemoveSnapshot
    BY <1>25, <1>a, NobodyIsApart
    DEF RemoveSnapshot, Locked, StatusIsLive, Running, bridge, requests,
          tables, history
  <1>26. CASE RemoveMember
    BY <1>26, <1>a, NobodyIsApart
    DEF RemoveMember, NoRemoval, NoSnapshot, Locked, StatusIsLive,
          Running, bridge, requests, tables, history
  <1>27. CASE UNCHANGED vars
    BY <1>27 DEF vars, Locked, StatusIsLive, Running, bridge, requests,
        tables, history
  <1> QED
    BY <1>1, <1>2, <1>3, <1>4, <1>5, <1>6, <1>7, <1>8, <1>9,
       <1>10, <1>11, <1>12, <1>13, <1>14, <1>15, <1>16, <1>17, <1>18,
       <1>19, <1>20, <1>21, <1>22, <1>23, <1>24, <1>25, <1>26, <1>27
    DEF Next, Publish, Handle, Remove

LEMMA AnswersLoad ==
  ASSUME TypeOK, LoadedIsStored, NEW p \in Calls, NEW what, Answers(p, what),
         UNCHANGED history, tx[p] # "none",
         call[p] # "publishing" => call[p] \notin Running
  PROVE  LoadedIsStored'
  <1>1. /\ config.revision \in Nat
        /\ \A q \in Calls : base[q].revision \in Nat
    BY DEF TypeOK, Configs
  <1>2. \A q \in Calls : base'[q] = base[q] \/ base'[q].revision = 0
    BY Blank DEF Answers
  <1>3. \A q \in Calls : /\ call'[q] = call[q]
                        /\ call[q] \in Running => base'[q] = base[q]
    BY DEF Answers
  <1>4. \A q \in Calls : ~crossed => base'[q].revision <= config.revision
    BY <1>1, <1>2, Blank DEF LoadedIsStored
  <1> QED
    BY <1>3, <1>4 DEF Answers, LoadedIsStored, history

\* What runs has loaded what is stored.
LEMMA StoredStep ==
  ASSUME TypeOK, Fits, Locked, LoadedIsStored, [Next]_vars
  PROVE  LoadedIsStored'
  <1>a. /\ call \in [Calls -> {"idle", "queued", "scanning", "publishing", "returned"}]
        /\ tx \in [Calls -> {"none", "arrived", "checked", "upserted", "deleted", "ok",
                            "refused"}]
        /\ base \in [Calls -> Configs] /\ config \in Configs
    BY DEF TypeOK
  <1>b. /\ config.revision \in Nat /\ \A p \in Calls : base[p].revision \in Nat
        /\ \A r \in saved : r[2] \in Nat
    BY <1>a DEF TypeOK, Configs
  <1>c. \A p \in Calls : /\ tx[p] # "none" /\ call[p] # "publishing" => call[p] \notin Running
    BY <1>a DEF Fits, Running
  <1>1. ASSUME NEW p \in Calls, AutoPublish(p) PROVE LoadedIsStored'
    BY <1>1, <1>a, <1>b
    DEF AutoPublish, Queue, Free, LoadedIsStored, Running, bridge,
          requests, tables, history
  <1>2. ASSUME NEW p \in Calls, Trigger(p) PROVE LoadedIsStored'
    BY <1>2, <1>a, <1>b
    DEF Trigger, Queue, Free, LoadedIsStored, Running, bridge, requests,
          tables, history
  <1>3. ASSUME NEW p \in Calls, TriggerDone(p) PROVE LoadedIsStored'
    BY <1>3, <1>a, <1>b
    DEF TriggerDone, LoadedIsStored, Running, bridge, requests, tables,
          history
  <1>4. ASSUME NEW p \in Calls, Begin(p) PROVE LoadedIsStored'
    <2>1. CASE config.swarm # NoSwarm
      BY <1>4, <1>a, <1>b, <2>1, NobodyIsApart DEF Begin, End, Locked, LoadedIsStored, Running,
         history
    <2>2. CASE config.swarm = NoSwarm
      <3>1. Ends(p) /\ UNCHANGED <<config, history>>
        BY <1>4, <2>2, ReleaseEnds DEF Begin, End
      <3> QED
        BY <1>b, <3>1, Blank DEF Ends, LoadedIsStored, Running, history
    <2> QED
      BY <2>1, <2>2
  <1>5. ASSUME NEW p \in Calls, Send(p) PROVE LoadedIsStored'
    BY <1>5, <1>a, <1>b
    DEF Send, LoadedIsStored, Running, bridge, requests, tables, history
  <1>6. ASSUME NEW p \in Calls, NothingSent(p) PROVE LoadedIsStored'
    <2>1. Ends(p) /\ UNCHANGED <<config, history>>
      BY <1>6, ReleaseEnds DEF NothingSent, End
    <2> QED
      BY <1>b, <2>1, Blank DEF Ends, LoadedIsStored, Running, history
  <1>7. ASSUME NEW p \in Calls, Save(p) PROVE LoadedIsStored'
    <2> DEFINE new == [base[p] EXCEPT !.revision = @ + 1]
    <2>1. new.swarm = base[p].swarm /\ new.revision = base[p].revision + 1
      BY <1>a, Later
    <2>2. /\ config' = new /\ saved' = saved \cup {<<new.swarm, new.revision>>}
          /\ Ends(p) /\ UNCHANGED crossed /\ call[p] = "publishing"
      BY <1>7, ReleaseEnds DEF Save, End
    <2> HIDE DEF new
    <2>3. publishMu = p /\ \A q \in Calls \ {p} : call[q] \notin Running
      BY <2>2 DEF Locked, Running
    <2>4. \A q \in Calls : call'[q] \notin Running
      BY <2>2, <2>3 DEF Ends, Running
    <2>5. ASSUME ~crossed PROVE config'.revision = config.revision + 1
      BY <2>1, <2>2, <2>5 DEF LoadedIsStored, Running
    <2>6. ASSUME ~crossed, NEW q \in Calls PROVE base'[q].revision <= config'.revision
      <3>1. base[q].revision <= config.revision
        BY <2>6 DEF LoadedIsStored
      <3>2. base'[q].revision = base[q].revision \/ base'[q].revision = 0
        BY <2>2, Blank DEF Ends
      <3> QED
        BY <1>b, <2>5, <2>6, <3>1, <3>2
    <2>7. ASSUME ~crossed, NEW r \in saved' PROVE r[2] <= config'.revision
      <3>1. CASE r \in saved
        BY <1>b, <2>5, <2>7, <3>1 DEF LoadedIsStored
      <3>2. CASE r = <<new.swarm, new.revision>>
        BY <1>b, <2>1, <2>2, <3>2
      <3> QED
        BY <2>2, <2>7, <3>1, <3>2
    <2> QED
      BY <2>2, <2>4, <2>6, <2>7 DEF LoadedIsStored
  <1>8. ASSUME NEW p \in Calls, SaveFails(p) PROVE LoadedIsStored'
    <2>1. Ends(p) /\ UNCHANGED <<config, history>>
      BY <1>8, ReleaseEnds DEF SaveFails, End
    <2> QED
      BY <1>b, <2>1, Blank DEF Ends, LoadedIsStored, Running, history
  <1>9. ASSUME NEW p \in Calls, Refused(p) PROVE LoadedIsStored'
    <2>1. Ends(p) /\ UNCHANGED <<config, history>>
      BY <1>9, ReleaseEnds DEF Refused, End
    <2> QED
      BY <1>b, <2>1, Blank DEF Ends, LoadedIsStored, Running, history
  <1>10. ASSUME NEW p \in Calls, GiveUp(p) PROVE LoadedIsStored'
    <2>1. Ends(p) /\ UNCHANGED <<config, history>>
      BY <1>10, ReleaseEnds DEF GiveUp, End
    <2> QED
      BY <1>b, <2>1, Blank DEF Ends, LoadedIsStored, Running, history
  <1>11. ASSUME NEW p \in Calls, Refuse(p) PROVE LoadedIsStored'
    <2>1. Answers(p, "refused") /\ UNCHANGED history
      BY <1>11, AnswerAnswers DEF Refuse
    <2>2. tx[p] # "none"
      BY <1>11 DEF Refuse, InTransaction
    <2> QED
      BY <1>b, <1>c, <2>1, <2>2, AnswersLoad DEF history
  <1>12. ASSUME NEW p \in Calls, CheckMember(p) PROVE LoadedIsStored'
    BY <1>12, <1>a, <1>b
    DEF CheckMember, LoadedIsStored, Running, bridge, requests, tables,
          history
  <1>13. ASSUME NEW p \in Calls, Upsert(p) PROVE LoadedIsStored'
    BY <1>13, <1>a, <1>b
    DEF Upsert, LoadedIsStored, Running, bridge, requests, tables,
          history
  <1>14. ASSUME NEW p \in Calls, DeleteItems(p) PROVE LoadedIsStored'
    BY <1>14, <1>a, <1>b
    DEF DeleteItems, LoadedIsStored, Running, bridge, requests, tables,
          history
  <1>15. ASSUME NEW p \in Calls, Commit(p) PROVE LoadedIsStored'
    <2>1. Answers(p, "ok") /\ UNCHANGED history
      BY <1>15, AnswerAnswers DEF Commit
    <2>2. tx[p] # "none"
      BY <1>15 DEF Commit, InTransaction
    <2> QED
      BY <1>b, <1>c, <2>1, <2>2, AnswersLoad DEF history
  <1>16. ASSUME NEW p \in Calls, Rollback(p) PROVE LoadedIsStored'
    <2>1. Answers(p, "refused") /\ UNCHANGED history
      BY <1>16, AnswerAnswers DEF Rollback
    <2>2. tx[p] # "none"
      BY <1>16 DEF Rollback, InTransaction
    <2> QED
      BY <1>b, <1>c, <2>1, <2>2, AnswersLoad DEF history
  <1>17. ASSUME NEW p \in Calls, Deadlock(p) PROVE LoadedIsStored'
    <2>1. UNCHANGED history /\ (Answers(p, "refused") \/ UNCHANGED bridge)
      BY <1>17, AnswerAnswers DEF Deadlock
    <2>2. tx[p] # "none"
      BY <1>17 DEF Deadlock
    <2> QED
      BY <1>b, <1>c, <2>1, <2>2, AnswersLoad DEF LoadedIsStored, history, bridge
  <1>18. ASSUME NEW s \in Swarms, StartJoin(s) PROVE LoadedIsStored'
    BY <1>18, <1>a, <1>b
    DEF StartJoin, LoadedIsStored, Running, bridge, requests, tables,
          history
  <1>19. CASE Enroll
    BY <1>19, <1>a, <1>b
    DEF Enroll, LoadedIsStored, Running, bridge, requests, tables,
          history
  <1>20. CASE SaveJoin
    <2>1. PICK p \in Calls : Queue(p, "join")
      BY <1>20 DEF SaveJoin
    <2>2. join.swarm \in Swarms
      BY <1>20 DEF SaveJoin, Fits
    <2>3. ASSUME ~crossed'
          PROVE  /\ ~crossed /\ join.base = config
                 /\ \A q \in Calls : call[q] \in Running => base[q].swarm = join.swarm
      BY <1>20, <2>3 DEF SaveJoin, Cross
    <2>4. ASSUME ~crossed'
          PROVE  /\ config'.revision = config.revision
                 /\ config.swarm = join.swarm => config' = config
      BY <1>20, <1>a, <2>2, <2>3, <2>4, Elsewhere DEF SaveJoin
    <2>5. \A q \in Calls : call'[q] \in Running => call[q] \in Running
      BY <1>a, <2>1 DEF Queue, Running
    <2>6. UNCHANGED <<base, saved>>
      BY <1>20 DEF SaveJoin
    <2> QED
      BY <2>3, <2>4, <2>5, <2>6 DEF LoadedIsStored
  <1>21. CASE JoinFails
    BY <1>21, <1>a, <1>b
    DEF JoinFails, NoJoin, LoadedIsStored, Running, bridge, requests,
          tables, history
  <1>22. CASE BridgeCrash
    <2>1. \A p \in Calls : /\ call'[p] = "idle"
                          /\ base'[p] \in {NotJoined, base[p]}
      BY <1>22 DEF BridgeCrash
    <2>2. UNCHANGED <<config, history>>
      BY <1>22 DEF BridgeCrash
    <2>3. \A p \in Calls : call'[p] \notin Running
      BY <1>22 DEF BridgeCrash, Running
    <2>4. \A p \in Calls : base'[p].revision <= base[p].revision
      BY <1>b, <2>1, Blank
    <2>5. \A p \in Calls : base'[p].revision \in Nat
      BY <1>b, <2>1, Blank
    <2> QED
      BY <1>b, <2>2, <2>3, <2>4, <2>5 DEF LoadedIsStored, history
  <1>23. ASSUME NEW s \in Swarms, RemoveItems(s) PROVE LoadedIsStored'
    BY <1>23, <1>a, <1>b
    DEF RemoveItems, LoadedIsStored, Running, bridge, requests, tables,
          history
  <1>24. CASE RemoveItemsResumed
    BY <1>24, <1>a, <1>b
    DEF RemoveItemsResumed, LoadedIsStored, Running, bridge, requests,
          tables, history
  <1>25. CASE RemoveSnapshot
    BY <1>25, <1>a, <1>b
    DEF RemoveSnapshot, LoadedIsStored, Running, bridge, requests,
          tables, history
  <1>26. CASE RemoveMember
    BY <1>26, <1>a, <1>b
    DEF RemoveMember, NoRemoval, NoSnapshot, LoadedIsStored, Running,
          bridge, requests, tables, history
  <1>27. CASE UNCHANGED vars
    BY <1>27 DEF vars, LoadedIsStored, Running, bridge, requests,
        tables, history
  <1> QED
    BY <1>1, <1>2, <1>3, <1>4, <1>5, <1>6, <1>7, <1>8, <1>9,
       <1>10, <1>11, <1>12, <1>13, <1>14, <1>15, <1>16, <1>17, <1>18,
       <1>19, <1>20, <1>21, <1>22, <1>23, <1>24, <1>25, <1>26, <1>27
    DEF Next, Publish, Handle, Remove

\* A revision that is saved is later than any saved before.
LEMMA FreshStep ==
  ASSUME TypeOK, Locked, LoadedIsStored, RevisionsAreFresh, [Next]_vars
  PROVE  RevisionsAreFresh'
  <1>1. ASSUME NEW p \in Calls, AutoPublish(p) PROVE RevisionsAreFresh'
    BY <1>1
    DEF AutoPublish, Queue, Free, RevisionsAreFresh, bridge, requests,
          tables, history
  <1>2. ASSUME NEW p \in Calls, Trigger(p) PROVE RevisionsAreFresh'
    BY <1>2
    DEF Trigger, Queue, Free, RevisionsAreFresh, bridge, requests,
          tables, history
  <1>3. ASSUME NEW p \in Calls, TriggerDone(p) PROVE RevisionsAreFresh'
    BY <1>3
    DEF TriggerDone, RevisionsAreFresh, bridge, requests, tables,
          history
  <1>4. ASSUME NEW p \in Calls, Begin(p) PROVE RevisionsAreFresh'
    BY <1>4
    DEF Begin, End, RevisionsAreFresh, bridge, requests, tables, history
  <1>5. ASSUME NEW p \in Calls, Send(p) PROVE RevisionsAreFresh'
    BY <1>5
    DEF Send, RevisionsAreFresh, bridge, requests, tables, history
  <1>6. ASSUME NEW p \in Calls, NothingSent(p) PROVE RevisionsAreFresh'
    BY <1>6
    DEF NothingSent, End, RevisionsAreFresh, bridge, requests, tables,
          history
  <1>7. ASSUME NEW p \in Calls, Save(p) PROVE RevisionsAreFresh'
    <2> DEFINE new == [base[p] EXCEPT !.revision = @ + 1]
    <2>1. base[p] \in Configs /\ config.revision \in Nat
          /\ \A r \in saved : r[2] \in Nat
      BY DEF TypeOK, Configs
    <2>2. new.revision = base[p].revision + 1
      BY <2>1, Later
    <2>3. /\ repeated' = (repeated \/ <<new.swarm, new.revision>> \in saved)
          /\ UNCHANGED crossed /\ call[p] = "publishing"
      BY <1>7 DEF Save
    <2> HIDE DEF new
    <2>4. ASSUME ~crossed PROVE <<new.swarm, new.revision>> \notin saved
      <3>1. new.revision = config.revision + 1
        BY <2>2, <2>3, <2>4 DEF LoadedIsStored, Running
      <3>2. \A r \in saved : r[2] <= config.revision
        BY <2>4 DEF LoadedIsStored
      <3>3. \A r \in saved : r[2] # new.revision
        BY <2>1, <3>1, <3>2
      <3> QED
        BY <3>3
    <2> QED
      BY <2>3, <2>4 DEF RevisionsAreFresh
  <1>8. ASSUME NEW p \in Calls, SaveFails(p) PROVE RevisionsAreFresh'
    BY <1>8
    DEF SaveFails, End, RevisionsAreFresh, bridge, requests, tables,
          history
  <1>9. ASSUME NEW p \in Calls, Refused(p) PROVE RevisionsAreFresh'
    BY <1>9
    DEF Refused, End, RevisionsAreFresh, bridge, requests, tables,
          history
  <1>10. ASSUME NEW p \in Calls, GiveUp(p) PROVE RevisionsAreFresh'
    BY <1>10
    DEF GiveUp, End, RevisionsAreFresh, bridge, requests, tables,
          history
  <1>11. ASSUME NEW p \in Calls, Refuse(p) PROVE RevisionsAreFresh'
    BY <1>11
    DEF Refuse, RevisionsAreFresh, bridge, requests, tables, history
  <1>12. ASSUME NEW p \in Calls, CheckMember(p) PROVE RevisionsAreFresh'
    BY <1>12
    DEF CheckMember, RevisionsAreFresh, bridge, requests, tables,
          history
  <1>13. ASSUME NEW p \in Calls, Upsert(p) PROVE RevisionsAreFresh'
    BY <1>13
    DEF Upsert, RevisionsAreFresh, bridge, requests, tables, history
  <1>14. ASSUME NEW p \in Calls, DeleteItems(p) PROVE RevisionsAreFresh'
    BY <1>14
    DEF DeleteItems, RevisionsAreFresh, bridge, requests, tables,
          history
  <1>15. ASSUME NEW p \in Calls, Commit(p) PROVE RevisionsAreFresh'
    BY <1>15
    DEF Commit, RevisionsAreFresh, bridge, requests, tables, history
  <1>16. ASSUME NEW p \in Calls, Rollback(p) PROVE RevisionsAreFresh'
    BY <1>16
    DEF Rollback, RevisionsAreFresh, bridge, requests, tables, history
  <1>17. ASSUME NEW p \in Calls, Deadlock(p) PROVE RevisionsAreFresh'
    BY <1>17
    DEF Deadlock, NoRemoval, RevisionsAreFresh, bridge, requests,
          tables, history
  <1>18. ASSUME NEW s \in Swarms, StartJoin(s) PROVE RevisionsAreFresh'
    BY <1>18
    DEF StartJoin, RevisionsAreFresh, bridge, requests, tables, history
  <1>19. CASE Enroll
    BY <1>19
    DEF Enroll, RevisionsAreFresh, bridge, requests, tables, history
  <1>20. CASE SaveJoin
    BY <1>20
    DEF SaveJoin, Queue, Free, Cross, NoJoin, RevisionsAreFresh, bridge,
          requests, tables, history
  <1>21. CASE JoinFails
    BY <1>21
    DEF JoinFails, NoJoin, RevisionsAreFresh, bridge, requests, tables,
          history
  <1>22. CASE BridgeCrash
    BY <1>22
    DEF BridgeCrash, NoJoin, RevisionsAreFresh, bridge, requests,
          tables, history
  <1>23. ASSUME NEW s \in Swarms, RemoveItems(s) PROVE RevisionsAreFresh'
    BY <1>23
    DEF RemoveItems, RevisionsAreFresh, bridge, requests, tables,
          history
  <1>24. CASE RemoveItemsResumed
    BY <1>24
    DEF RemoveItemsResumed, RevisionsAreFresh, bridge, requests, tables,
          history
  <1>25. CASE RemoveSnapshot
    BY <1>25
    DEF RemoveSnapshot, RevisionsAreFresh, bridge, requests, tables,
          history
  <1>26. CASE RemoveMember
    BY <1>26
    DEF RemoveMember, NoRemoval, NoSnapshot, RevisionsAreFresh, bridge,
          requests, tables, history
  <1>27. CASE UNCHANGED vars
    BY <1>27 DEF vars, RevisionsAreFresh, bridge, requests, tables,
        history
  <1> QED
    BY <1>1, <1>2, <1>3, <1>4, <1>5, <1>6, <1>7, <1>8, <1>9,
       <1>10, <1>11, <1>12, <1>13, <1>14, <1>15, <1>16, <1>17, <1>18,
       <1>19, <1>20, <1>21, <1>22, <1>23, <1>24, <1>25, <1>26, <1>27
    DEF Next, Publish, Handle, Remove

\* The Host stores at most the revision after the stored one.
LEMMA AheadStep ==
  ASSUME TypeOK, Fits, Locked, LoadedIsStored, HostIsOneAhead, [Next]_vars
  PROVE  HostIsOneAhead'
  <1>a. /\ config \in Configs /\ config.revision \in Nat
        /\ \A p \in Calls : base[p] \in Configs /\ base[p].revision \in Nat
        /\ snapshot \in [Swarms -> [revision : Nat, files : SUBSET Files]]
        /\ \A s \in Swarms : snapshot[s].revision \in Nat
    BY DEF TypeOK, Configs
  <1>1. ASSUME NEW p \in Calls, AutoPublish(p) PROVE HostIsOneAhead'
    BY <1>1
    DEF AutoPublish, Queue, Free, HostIsOneAhead, bridge, requests,
          tables, history
  <1>2. ASSUME NEW p \in Calls, Trigger(p) PROVE HostIsOneAhead'
    BY <1>2
    DEF Trigger, Queue, Free, HostIsOneAhead, bridge, requests, tables,
          history
  <1>3. ASSUME NEW p \in Calls, TriggerDone(p) PROVE HostIsOneAhead'
    BY <1>3
    DEF TriggerDone, HostIsOneAhead, bridge, requests, tables, history
  <1>4. ASSUME NEW p \in Calls, Begin(p) PROVE HostIsOneAhead'
    <2>1. UNCHANGED <<config, crossed, snapshot>>
      BY <1>4 DEF Begin, End, Release, tables, history
    <2> QED
      BY <2>1 DEF HostIsOneAhead
  <1>5. ASSUME NEW p \in Calls, Send(p) PROVE HostIsOneAhead'
    BY <1>5
    DEF Send, HostIsOneAhead, bridge, requests, tables, history
  <1>6. ASSUME NEW p \in Calls, NothingSent(p) PROVE HostIsOneAhead'
    <2>1. UNCHANGED <<config, crossed, snapshot>>
      BY <1>6 DEF NothingSent, End, Release, tables, history
    <2> QED
      BY <2>1 DEF HostIsOneAhead
  <1>7. ASSUME NEW p \in Calls, Save(p) PROVE HostIsOneAhead'
    <2>1. config' = [base[p] EXCEPT !.revision = @ + 1]
          /\ UNCHANGED <<crossed, snapshot>> /\ call[p] = "publishing"
      BY <1>7 DEF Save, End, Release, tables
    <2>2. ASSUME ~crossed PROVE config'.revision = config.revision + 1
      BY <1>a, <2>1, <2>2, Later DEF LoadedIsStored, Running
    <2> QED
      BY <1>a, <2>1, <2>2 DEF HostIsOneAhead
  <1>8. ASSUME NEW p \in Calls, SaveFails(p) PROVE HostIsOneAhead'
    <2>1. UNCHANGED <<config, crossed, snapshot>>
      BY <1>8 DEF SaveFails, End, Release, tables, history
    <2> QED
      BY <2>1 DEF HostIsOneAhead
  <1>9. ASSUME NEW p \in Calls, Refused(p) PROVE HostIsOneAhead'
    <2>1. UNCHANGED <<config, crossed, snapshot>>
      BY <1>9 DEF Refused, End, Release, tables, history
    <2> QED
      BY <2>1 DEF HostIsOneAhead
  <1>10. ASSUME NEW p \in Calls, GiveUp(p) PROVE HostIsOneAhead'
    <2>1. UNCHANGED <<config, crossed, snapshot>>
      BY <1>10 DEF GiveUp, End, Release, tables, history
    <2> QED
      BY <2>1 DEF HostIsOneAhead
  <1>11. ASSUME NEW p \in Calls, Refuse(p) PROVE HostIsOneAhead'
    <2>1. UNCHANGED <<config, crossed, snapshot>>
      BY <1>11 DEF Refuse, Answer, tables, history, bridge
    <2> QED
      BY <2>1 DEF HostIsOneAhead
  <1>12. ASSUME NEW p \in Calls, CheckMember(p) PROVE HostIsOneAhead'
    BY <1>12
    DEF CheckMember, HostIsOneAhead, bridge, requests, tables, history
  <1>13. ASSUME NEW p \in Calls, Upsert(p) PROVE HostIsOneAhead'
    BY <1>13
    DEF Upsert, HostIsOneAhead, bridge, requests, tables, history
  <1>14. ASSUME NEW p \in Calls, DeleteItems(p) PROVE HostIsOneAhead'
    BY <1>14
    DEF DeleteItems, HostIsOneAhead, bridge, requests, tables, history
  <1>15. ASSUME NEW p \in Calls, Commit(p) PROVE HostIsOneAhead'
    <2>1. Swarm(p) \in Swarms
      BY <1>15 DEF Commit, Fits, Swarm
    <2>2. /\ UNCHANGED <<config, crossed>>
          /\ snapshot'[Swarm(p)].revision = base[p].revision + 1
          /\ \A s \in Swarms \ {Swarm(p)} : snapshot'[s] = snapshot[s]
      BY <1>15, <1>a, <2>1 DEF Commit, Answer, history
    <2>3. ~crossed => base[p].revision <= config.revision
      BY DEF LoadedIsStored
    <2> QED
      BY <1>a, <2>1, <2>2, <2>3 DEF HostIsOneAhead
  <1>16. ASSUME NEW p \in Calls, Rollback(p) PROVE HostIsOneAhead'
    <2>1. UNCHANGED <<config, crossed, snapshot>>
      BY <1>16 DEF Rollback, Answer, tables, history, bridge
    <2> QED
      BY <2>1 DEF HostIsOneAhead
  <1>17. ASSUME NEW p \in Calls, Deadlock(p) PROVE HostIsOneAhead'
    <2>1. UNCHANGED <<config, crossed, snapshot>>
      BY <1>17 DEF Deadlock, Answer, tables, history, bridge
    <2> QED
      BY <2>1 DEF HostIsOneAhead
  <1>18. ASSUME NEW s \in Swarms, StartJoin(s) PROVE HostIsOneAhead'
    BY <1>18
    DEF StartJoin, HostIsOneAhead, bridge, requests, tables, history
  <1>19. CASE Enroll
    BY <1>19
    DEF Enroll, HostIsOneAhead, bridge, requests, tables, history
  <1>20. CASE SaveJoin
    <2>1. UNCHANGED snapshot /\ (~crossed' => ~crossed /\ join.base = config)
      BY <1>20 DEF SaveJoin, Cross, tables
    <2>2. ASSUME ~crossed' PROVE config'.revision = config.revision
      BY <1>20, <1>a, <2>1, <2>2, Elsewhere DEF SaveJoin, Fits
    <2> QED
      BY <2>1, <2>2 DEF HostIsOneAhead
  <1>21. CASE JoinFails
    BY <1>21
    DEF JoinFails, NoJoin, HostIsOneAhead, bridge, requests, tables,
          history
  <1>22. CASE BridgeCrash
    BY <1>22
    DEF BridgeCrash, NoJoin, HostIsOneAhead, bridge, requests, tables,
          history
  <1>23. ASSUME NEW s \in Swarms, RemoveItems(s) PROVE HostIsOneAhead'
    BY <1>23
    DEF RemoveItems, HostIsOneAhead, bridge, requests, tables, history
  <1>24. CASE RemoveItemsResumed
    BY <1>24
    DEF RemoveItemsResumed, HostIsOneAhead, bridge, requests, tables,
          history
  <1>25. CASE RemoveSnapshot
    BY <1>25
    DEF RemoveSnapshot, HostIsOneAhead, bridge, requests, tables,
          history
  <1>26. CASE RemoveMember
    <2>1. UNCHANGED <<config, crossed>> /\ removal.swarm \in Swarms
      BY <1>26 DEF RemoveMember, bridge, Fits
    <2>2. \A s \in Swarms : snapshot'[s] = snapshot[s] \/ snapshot'[s].revision = 0
      BY <1>26, <1>a, <2>1 DEF RemoveMember, NoSnapshot, tables
    <2> QED
      BY <1>a, <2>1, <2>2 DEF HostIsOneAhead
  <1>27. CASE UNCHANGED vars
    BY <1>27 DEF vars, HostIsOneAhead, bridge, requests, tables, history
  <1> QED
    BY <1>1, <1>2, <1>3, <1>4, <1>5, <1>6, <1>7, <1>8, <1>9,
       <1>10, <1>11, <1>12, <1>13, <1>14, <1>15, <1>16, <1>17, <1>18,
       <1>19, <1>20, <1>21, <1>22, <1>23, <1>24, <1>25, <1>26, <1>27
    DEF Next, Publish, Handle, Remove

\* A Replace begins when no other of its Swarm is open.
LEMMA ReplaceStep ==
  ASSUME TypeOK, Fits, OneReplace, [Next]_vars
  PROVE  OneReplace'
  <1>a. /\ \A p \in Calls : tx[p] \in {"deleted"} \cup InTransaction => base[p].swarm \in Swarms
        /\ rows \in [Swarms -> SUBSET Files] /\ gone \in [Calls -> SUBSET Files]
        /\ tx \in [Calls -> {"none", "arrived", "checked", "upserted", "deleted", "ok",
                            "refused"}]
        /\ base \in [Calls -> Configs]
    BY DEF Fits, TypeOK, InTransaction
  <1>b. \A p \in Calls : call[p] = "queued" => tx[p] = "none"
    BY DEF Fits
  <1>1. ASSUME NEW p \in Calls, AutoPublish(p) PROVE OneReplace'
    BY <1>1, <1>a
    DEF AutoPublish, Queue, Free, OneReplace, InTransaction, Swarm,
          bridge, requests, tables, history
  <1>2. ASSUME NEW p \in Calls, Trigger(p) PROVE OneReplace'
    BY <1>2, <1>a
    DEF Trigger, Queue, Free, OneReplace, InTransaction, Swarm, bridge,
          requests, tables, history
  <1>3. ASSUME NEW p \in Calls, TriggerDone(p) PROVE OneReplace'
    BY <1>3, <1>a
    DEF TriggerDone, OneReplace, InTransaction, Swarm, bridge, requests,
          tables, history
  <1>4. ASSUME NEW p \in Calls, Begin(p) PROVE OneReplace'
    <2>1. CASE config.swarm # NoSwarm
      BY <1>4, <1>a, <1>b, <2>1 DEF Begin, End, OneReplace, InTransaction, Swarm, requests,
         tables, history
    <2>2. CASE config.swarm = NoSwarm
      <3>1. Ends(p) /\ UNCHANGED removed
        BY <1>4, <2>2, ReleaseEnds DEF Begin, End, history
      <3> QED
        BY <3>1 DEF Ends, OneReplace, InTransaction, Swarm, tables
    <2> QED
      BY <2>1, <2>2
  <1>5. ASSUME NEW p \in Calls, Send(p) PROVE OneReplace'
    BY <1>5, <1>a
    DEF Send, OneReplace, InTransaction, Swarm, bridge, requests,
          tables, history
  <1>6. ASSUME NEW p \in Calls, NothingSent(p) PROVE OneReplace'
    <2>1. Ends(p) /\ UNCHANGED removed
      BY <1>6, ReleaseEnds DEF NothingSent, End, history
    <2> QED
      BY <2>1 DEF Ends, OneReplace, InTransaction, Swarm, tables
  <1>7. ASSUME NEW p \in Calls, Save(p) PROVE OneReplace'
    <2>1. Ends(p) /\ UNCHANGED removed
      BY <1>7, ReleaseEnds DEF Save, End, history
    <2> QED
      BY <2>1 DEF Ends, OneReplace, InTransaction, Swarm, tables
  <1>8. ASSUME NEW p \in Calls, SaveFails(p) PROVE OneReplace'
    <2>1. Ends(p) /\ UNCHANGED removed
      BY <1>8, ReleaseEnds DEF SaveFails, End, history
    <2> QED
      BY <2>1 DEF Ends, OneReplace, InTransaction, Swarm, tables
  <1>9. ASSUME NEW p \in Calls, Refused(p) PROVE OneReplace'
    <2>1. Ends(p) /\ UNCHANGED removed
      BY <1>9, ReleaseEnds DEF Refused, End, history
    <2> QED
      BY <2>1 DEF Ends, OneReplace, InTransaction, Swarm, tables
  <1>10. ASSUME NEW p \in Calls, GiveUp(p) PROVE OneReplace'
    <2>1. Ends(p) /\ UNCHANGED removed
      BY <1>10, ReleaseEnds DEF GiveUp, End, history
    <2> QED
      BY <2>1 DEF Ends, OneReplace, InTransaction, Swarm, tables
  <1>11. ASSUME NEW p \in Calls, Refuse(p) PROVE OneReplace'
    <2>1. Answers(p, "refused") /\ UNCHANGED <<tables, removed>>
      BY <1>11, AnswerAnswers DEF Refuse, history
    <2> QED
      BY <2>1 DEF Answers, OneReplace, InTransaction, Swarm, tables
  <1>12. ASSUME NEW p \in Calls, CheckMember(p) PROVE OneReplace'
    BY <1>12, <1>a
    DEF CheckMember, OneReplace, InTransaction, Swarm, bridge, requests,
          tables, history
  <1>13. ASSUME NEW p \in Calls, Upsert(p) PROVE OneReplace'
    BY <1>13, <1>a
    DEF Upsert, SnapshotLocked, OneReplace, InTransaction, Swarm,
          bridge, requests, tables, history
  <1>14. ASSUME NEW p \in Calls, DeleteItems(p) PROVE OneReplace'
    BY <1>14, <1>a
    DEF DeleteItems, OneReplace, InTransaction, Swarm, bridge, requests,
          tables, history
  <1>15. ASSUME NEW p \in Calls, Commit(p) PROVE OneReplace'
    <2>1. Answers(p, "ok") /\ UNCHANGED removed /\ tx[p] = "deleted"
      BY <1>15, AnswerAnswers DEF Commit, history
    <2>2. \A s \in Swarms \ {Swarm(p)} : rows'[s] = rows[s]
      BY <1>15, <1>a DEF Commit
    <2>3. \A q \in Calls : tx'[q] \in InTransaction =>
            /\ q # p /\ tx'[q] = tx[q] /\ base'[q] = base[q] /\ gone'[q] = gone[q]
            /\ base[q].swarm \in Swarms \ {Swarm(p)}
      BY <1>a, <2>1 DEF Answers, OneReplace, InTransaction, Swarm
    <2>4. \A q \in Calls : tx'[q] = "deleted" => tx'[q] \in InTransaction
      BY DEF InTransaction
    <2> QED
      BY <2>1, <2>2, <2>3, <2>4 DEF OneReplace, Swarm
  <1>16. ASSUME NEW p \in Calls, Rollback(p) PROVE OneReplace'
    <2>1. Answers(p, "refused") /\ UNCHANGED <<tables, removed>>
      BY <1>16, AnswerAnswers DEF Rollback, history
    <2> QED
      BY <2>1 DEF Answers, OneReplace, InTransaction, Swarm, tables
  <1>17. ASSUME NEW p \in Calls, Deadlock(p) PROVE OneReplace'
    <2>1. /\ UNCHANGED <<tables, removed>>
          /\ Answers(p, "refused") \/ UNCHANGED <<bridge, requests>>
      BY <1>17, AnswerAnswers DEF Deadlock, history
    <2> QED
      BY <2>1 DEF Answers, OneReplace, InTransaction, Swarm, tables, bridge, requests
  <1>18. ASSUME NEW s \in Swarms, StartJoin(s) PROVE OneReplace'
    BY <1>18, <1>a
    DEF StartJoin, OneReplace, InTransaction, Swarm, bridge, requests,
          tables, history
  <1>19. CASE Enroll
    BY <1>19, <1>a
    DEF Enroll, OneReplace, InTransaction, Swarm, bridge, requests,
          tables, history
  <1>20. CASE SaveJoin
    BY <1>20, <1>a
    DEF SaveJoin, Queue, Free, Cross, NoJoin, OneReplace, InTransaction,
          Swarm, bridge, requests, tables, history
  <1>21. CASE JoinFails
    BY <1>21, <1>a
    DEF JoinFails, NoJoin, OneReplace, InTransaction, Swarm, bridge,
          requests, tables, history
  <1>22. CASE BridgeCrash
    <2>1. \A p \in Calls : tx'[p] \in InTransaction =>
            tx'[p] = tx[p] /\ base'[p] = base[p] /\ gone'[p] = gone[p]
      BY <1>22 DEF BridgeCrash, InTransaction
    <2>2. UNCHANGED <<rows, removed>>
      BY <1>22 DEF BridgeCrash, tables, history
    <2> QED
      BY <2>1, <2>2 DEF OneReplace, InTransaction, Swarm
  <1>23. ASSUME NEW s \in Swarms, RemoveItems(s) PROVE OneReplace'
    BY <1>23, <1>a
    DEF RemoveItems, OneReplace, InTransaction, Swarm, bridge, requests,
          tables, history
  <1>24. CASE RemoveItemsResumed
    BY <1>24, <1>a
    DEF RemoveItemsResumed, OneReplace, InTransaction, Swarm, bridge,
          requests, tables, history
  <1>25. CASE RemoveSnapshot
    BY <1>25, <1>a
    DEF RemoveSnapshot, OneReplace, InTransaction, Swarm, bridge,
          requests, tables, history
  <1>26. CASE RemoveMember
    <2>1. UNCHANGED <<bridge, requests>> /\ removal.swarm \in Swarms
      BY <1>26 DEF RemoveMember, Fits
    <2>2. \A s \in Swarms \ removed' : s \notin removed /\ rows'[s] = rows[s]
      BY <1>26, <1>a, <2>1 DEF RemoveMember, tables
    <2>3. removed \subseteq removed'
      BY <1>26 DEF RemoveMember
    <2> QED
      BY <1>a, <2>1, <2>2, <2>3 DEF OneReplace, InTransaction, Swarm, bridge, requests
  <1>27. CASE UNCHANGED vars
    BY <1>27 DEF vars, OneReplace, InTransaction, Swarm, bridge,
        requests, tables, history
  <1> QED
    BY <1>1, <1>2, <1>3, <1>4, <1>5, <1>6, <1>7, <1>8, <1>9,
       <1>10, <1>11, <1>12, <1>13, <1>14, <1>15, <1>16, <1>17, <1>18,
       <1>19, <1>20, <1>21, <1>22, <1>23, <1>24, <1>25, <1>26, <1>27
    DEF Next, Publish, Handle, Remove

\* What a Replace inserts is all that is left.
LEMMA SnapshotStep ==
  ASSUME TypeOK, Fits, OneReplace, SnapshotDescribesRows, [Next]_vars
  PROVE  SnapshotDescribesRows'
  <1>1. ASSUME NEW p \in Calls, AutoPublish(p) PROVE SnapshotDescribesRows'
    BY <1>1
    DEF AutoPublish, Queue, Free, SnapshotDescribesRows, bridge,
          requests, tables, history
  <1>2. ASSUME NEW p \in Calls, Trigger(p) PROVE SnapshotDescribesRows'
    BY <1>2
    DEF Trigger, Queue, Free, SnapshotDescribesRows, bridge, requests,
          tables, history
  <1>3. ASSUME NEW p \in Calls, TriggerDone(p) PROVE SnapshotDescribesRows'
    BY <1>3
    DEF TriggerDone, SnapshotDescribesRows, bridge, requests, tables,
          history
  <1>4. ASSUME NEW p \in Calls, Begin(p) PROVE SnapshotDescribesRows'
    BY <1>4 DEF Begin, End, Release, SnapshotDescribesRows, tables, history
  <1>5. ASSUME NEW p \in Calls, Send(p) PROVE SnapshotDescribesRows'
    BY <1>5
    DEF Send, SnapshotDescribesRows, bridge, requests, tables, history
  <1>6. ASSUME NEW p \in Calls, NothingSent(p) PROVE SnapshotDescribesRows'
    BY <1>6 DEF NothingSent, End, Release, SnapshotDescribesRows, tables, history
  <1>7. ASSUME NEW p \in Calls, Save(p) PROVE SnapshotDescribesRows'
    BY <1>7 DEF Save, End, Release, SnapshotDescribesRows, tables, history
  <1>8. ASSUME NEW p \in Calls, SaveFails(p) PROVE SnapshotDescribesRows'
    BY <1>8 DEF SaveFails, End, Release, SnapshotDescribesRows, tables, history
  <1>9. ASSUME NEW p \in Calls, Refused(p) PROVE SnapshotDescribesRows'
    BY <1>9 DEF Refused, End, Release, SnapshotDescribesRows, tables, history
  <1>10. ASSUME NEW p \in Calls, GiveUp(p) PROVE SnapshotDescribesRows'
    BY <1>10 DEF GiveUp, End, Release, SnapshotDescribesRows, tables, history
  <1>11. ASSUME NEW p \in Calls, Refuse(p) PROVE SnapshotDescribesRows'
    BY <1>11
    DEF Refuse, SnapshotDescribesRows, bridge, requests, tables, history
  <1>12. ASSUME NEW p \in Calls, CheckMember(p) PROVE SnapshotDescribesRows'
    BY <1>12
    DEF CheckMember, SnapshotDescribesRows, bridge, requests, tables,
          history
  <1>13. ASSUME NEW p \in Calls, Upsert(p) PROVE SnapshotDescribesRows'
    BY <1>13
    DEF Upsert, SnapshotDescribesRows, bridge, requests, tables, history
  <1>14. ASSUME NEW p \in Calls, DeleteItems(p) PROVE SnapshotDescribesRows'
    BY <1>14
    DEF DeleteItems, SnapshotDescribesRows, bridge, requests, tables,
          history
  <1>15. ASSUME NEW p \in Calls, Commit(p) PROVE SnapshotDescribesRows'
    <2>1. Swarm(p) \in Swarms /\ tx[p] = "deleted"
      BY <1>15 DEF Commit, Fits, Swarm
    <2>2. /\ rows'[Swarm(p)] = (rows[Swarm(p)] \ gone[p]) \cup files[p]
          /\ snapshot'[Swarm(p)].files = files[p] /\ UNCHANGED removed
          /\ \A s \in Swarms \ {Swarm(p)} :
               rows'[s] = rows[s] /\ snapshot'[s] = snapshot[s]
      BY <1>15, <2>1 DEF Commit, TypeOK, history
    <2>3. Swarm(p) \notin removed => gone[p] = rows[Swarm(p)]
      BY <2>1 DEF OneReplace
    <2> QED
      BY <2>1, <2>2, <2>3 DEF SnapshotDescribesRows
  <1>16. ASSUME NEW p \in Calls, Rollback(p) PROVE SnapshotDescribesRows'
    BY <1>16
    DEF Rollback, SnapshotDescribesRows, bridge, requests, tables,
          history
  <1>17. ASSUME NEW p \in Calls, Deadlock(p) PROVE SnapshotDescribesRows'
    BY <1>17
    DEF Deadlock, NoRemoval, SnapshotDescribesRows, bridge, requests,
          tables, history
  <1>18. ASSUME NEW s \in Swarms, StartJoin(s) PROVE SnapshotDescribesRows'
    BY <1>18
    DEF StartJoin, SnapshotDescribesRows, bridge, requests, tables,
          history
  <1>19. CASE Enroll
    BY <1>19
    DEF Enroll, SnapshotDescribesRows, bridge, requests, tables, history
  <1>20. CASE SaveJoin
    BY <1>20
    DEF SaveJoin, Queue, Free, Cross, NoJoin, SnapshotDescribesRows,
          bridge, requests, tables, history
  <1>21. CASE JoinFails
    BY <1>21
    DEF JoinFails, NoJoin, SnapshotDescribesRows, bridge, requests,
          tables, history
  <1>22. CASE BridgeCrash
    BY <1>22
    DEF BridgeCrash, NoJoin, SnapshotDescribesRows, bridge, requests,
          tables, history
  <1>23. ASSUME NEW s \in Swarms, RemoveItems(s) PROVE SnapshotDescribesRows'
    BY <1>23
    DEF RemoveItems, SnapshotDescribesRows, bridge, requests, tables,
          history
  <1>24. CASE RemoveItemsResumed
    BY <1>24
    DEF RemoveItemsResumed, SnapshotDescribesRows, bridge, requests,
          tables, history
  <1>25. CASE RemoveSnapshot
    BY <1>25
    DEF RemoveSnapshot, SnapshotDescribesRows, bridge, requests, tables,
          history
  <1>26. CASE RemoveMember
    <2>1. removal.swarm \in Swarms
      BY <1>26 DEF RemoveMember, Fits
    <2>2. \A s \in Swarms \ removed' :
            s \notin removed /\ rows'[s] = rows[s] /\ snapshot'[s] = snapshot[s]
      BY <1>26, <2>1 DEF RemoveMember, TypeOK, tables
    <2> QED
      BY <2>2 DEF SnapshotDescribesRows
  <1>27. CASE UNCHANGED vars
    BY <1>27 DEF vars, SnapshotDescribesRows, bridge, requests, tables,
        history
  <1> QED
    BY <1>1, <1>2, <1>3, <1>4, <1>5, <1>6, <1>7, <1>8, <1>9,
       <1>10, <1>11, <1>12, <1>13, <1>14, <1>15, <1>16, <1>17, <1>18,
       <1>19, <1>20, <1>21, <1>22, <1>23, <1>24, <1>25, <1>26, <1>27
    DEF Next, Publish, Handle, Remove

-----------------------------------------------------------------------------
LEMMA InitInv == Init => IInv
  <1> SUFFICES ASSUME Init PROVE IInv
    OBVIOUS
  <1>1. TypeOK
    BY Blank, Booleans DEF Init, TypeOK, Removals, NoJoin, NoRemoval, NoSnapshot
  <1>2. Fits /\ Locked /\ LoadedIsStored /\ OneReplace
    BY Blank, NobodyIsApart DEF Init, Fits, Locked, LoadedIsStored, OneReplace,
       Running, InTransaction, NoJoin, NoRemoval, NotJoined
  <1>3. SnapshotDescribesRows /\ RevisionsAreFresh /\ StatusIsLive
    BY DEF Init, SnapshotDescribesRows, RevisionsAreFresh, StatusIsLive, Running,
           NoSnapshot
  <1>4. HostIsOneAhead
    BY Blank DEF Init, HostIsOneAhead, NoSnapshot
  <1> QED
    BY <1>1, <1>2, <1>3, <1>4 DEF IInv

LEMMA StepInv == IInv /\ [Next]_vars => IInv'
  <1> SUFFICES ASSUME IInv, [Next]_vars PROVE IInv'
    OBVIOUS
  <1>1. /\ TypeOK /\ Fits /\ Locked /\ LoadedIsStored /\ OneReplace
        /\ SnapshotDescribesRows /\ RevisionsAreFresh /\ HostIsOneAhead
        /\ StatusIsLive
    BY DEF IInv
  <1>2. TypeOK' /\ Fits' /\ Locked' /\ LoadedIsStored' /\ OneReplace'
    BY <1>1, StepTyped, StepFits, LockStep, StoredStep, ReplaceStep
  <1>3. SnapshotDescribesRows' /\ RevisionsAreFresh' /\ HostIsOneAhead'
        /\ StatusIsLive'
    BY <1>1, SnapshotStep, FreshStep, AheadStep, StatusStep
  <1> QED
    BY <1>2, <1>3 DEF IInv

THEOREM PublishingInv == Spec => []IInv
  BY InitInv, StepInv, PTL DEF Spec

\* "Leaving a torn union of both manifests' items behind": until a Swarm was
\* left, its rows are those of the one manifest its snapshot row describes,
\* for any number of requests in flight, failures and deadlocks.
THEOREM RowsAreOneManifest == Spec => []SnapshotDescribesRows
  <1>1. IInv => SnapshotDescribesRows
    BY DEF IInv
  <1> QED
    BY <1>1, PublishingInv, PTL

\* What that rests on: two Replace calls of a Swarm never overlap between the
\* upsert of its snapshot row and the commit.
THEOREM ReplacesAreApart == Spec => []OneReplace
  <1>1. IInv => OneReplace
    BY DEF IInv
  <1> QED
    BY <1>1, PublishingInv, PTL

\* publishMu: "two overlapping publishes can never race the Load-modify-Save",
\* and only a JoinSwarm that takes no lock can make a revision be saved twice.
THEOREM NoRevisionTwice == Spec => []RevisionsAreFresh
  <1>1. IInv => RevisionsAreFresh
    BY DEF IInv
  <1> QED
    BY <1>1, PublishingInv, PTL

\* However many answers are lost, the Host's revision of a Swarm is at most
\* the one after the Bridge's.
THEOREM HostNeverFarAhead == Spec => []HostIsOneAhead
  <1>1. IInv => HostIsOneAhead
    BY DEF IInv
  <1> QED
    BY <1>1, PublishingInv, PTL

\* The status an operator watches runs while a call does, and only while one
\* is queued or at work, on every path out of PublishInventory.
THEOREM StatusIsNeverStale == Spec => []StatusIsLive
  <1>1. IInv => StatusIsLive
    BY DEF IInv
  <1> QED
    BY <1>1, PublishingInv, PTL

=============================================================================
