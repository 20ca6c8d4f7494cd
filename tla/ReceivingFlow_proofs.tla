------------------------ MODULE ReceivingFlow_proofs ------------------------
(***************************************************************************)
(* Theorems about ReceivingFlow, for any transfers, payloads, names and    *)
(* number of faults.  The invariant ties the goroutine's position to its   *)
(* journal: that is why no entry is ever refused, why the flow implements  *)
(* the destination state machine, and why the journal can be believed      *)
(* after a crash.  What the machine promises by itself comes last.         *)
(***************************************************************************)
EXTENDS ReceivingFlow, TLAPS

Staging == {"stage", "write", "verify", "reject", "verified"}
Publishing == {"lstat", "copy", "copying", "link", "sync", "unlink",
               "published"}
Delivering == {"sync", "unlink", "published", "handed", "await", "settle",
               "republish", "activate"}

\* Where the goroutine of a transfer stands tells what its journal says last.
PcFits(t) ==
  /\ pc[t] = "idle" => state[t] = "none"
  /\ pc[t] \in Staging => state[t] = "receiving"
  /\ pc[t] \in Publishing => /\ state[t] = "verified_in_staging"
                            /\ mode = "filesystem_publication"
  /\ pc[t] = "upload" => state[t] = "verified_in_staging" /\ mode = "api_only"
  /\ pc[t] = "sending" => state[t] = "uploading_to_romm" /\ mode = "api_only"
  /\ pc[t] = "handed" => state[t] \in Machine!HandOffs
  /\ pc[t] \in {"await", "settle"} => state[t] = "awaiting_romm_ingestion"
  /\ pc[t] = "settle" => verdict[t] \in Results
  /\ pc[t] \in {"republish", "activate"} => state[t] = "romm_matched"
  /\ pc[t] # "refused"

\* What has been handed over, against where the goroutine stands.
HandOffFits(t) ==
  /\ pc[t] \in Delivering => t \in delivered
  /\ pc[t] \in Publishing \cup {"upload", "sending"}
       => "verified_in_staging" \in passed[t]
  /\ {"published_to_filesystem", "awaiting_romm_ingestion"} \cap passed[t] # {}
       => t \in delivered
  /\ t \in delivered => "verified_in_staging" \in passed[t]

\* Once verified, a payload on disk is the expected one or gone.
DiskFits(t) ==
  /\ pc[t] \in Publishing \cup {"verified", "upload", "sending"}
       => staged[t] \in {expected[t], "none"}
  /\ pc[t] = "link" /\ ~sameFS => copy[t] = expected[t]

\* A match was of the expected payload, and what follows follows from it.
SourceFits(t) ==
  /\ verdict[t] = "romm_matched" /\ t \notin outdated
       => library[dest[t]] = expected[t]
  /\ pc[t] \in {"republish", "activate"} \/ state[t] = "source_active"
       => verdict[t] = "romm_matched"
  /\ pc[t] \in {"republish", "activate"} => "romm_matched" \in passed[t]
  /\ t \in advertised => "romm_matched" \in passed[t]
  /\ pc[t] = "activate" \/ state[t] = "source_active"
       => (advertises => t \in advertised)

Fits(t) == PcFits(t) /\ HandOffFits(t) /\ DiskFits(t) /\ SourceFits(t)

FInv == TypeOK /\ LibraryIsVerified /\ \A t \in Transfers : Fits(t)

-----------------------------------------------------------------------------
\* The SMT encoding does not know the members of BOOLEAN by itself.
LEMMA Booleans == TRUE \in BOOLEAN /\ FALSE \in BOOLEAN
  OBVIOUS

\* Initially nothing runs and nothing is recorded.
LEMMA InitInv == Init => FInv
  <1> SUFFICES ASSUME Init PROVE FInv
    OBVIOUS
  <1>1. TypeOK
    BY BoundIsNat, Booleans
    DEF Init, TypeOK, Machine!Init, Machine!TypeOK, Steps, Contents, Results
  <1>2. ASSUME NEW t \in Transfers PROVE Fits(t)
    BY DEF Init, Machine!Init, Fits, PcFits, HandOffFits, DiskFits,
           SourceFits, Staging, Publishing, Delivering
  <1>3. LibraryIsVerified
    BY DEF Init, LibraryIsVerified
  <1>4. QED
    BY <1>1, <1>2, <1>3 DEF FInv

\* What Advance writes is a journal entry and a position.
LEMMA AdvanceTyped ==
  ASSUME TypeOK, NEW t \in Transfers, NEW to \in Machine!States,
         NEW next \in Steps, Advance(t, to, next)
  PROVE  /\ pc' \in [Transfers -> Steps] /\ Machine!TypeOK'
         /\ faults' \in 0..MaxFaults
  <1>1. pc' \in [Transfers -> Steps]
    BY DEF Advance, Goto, TypeOK, Steps
  <1>2. Machine!TypeOK'
    BY DEF Advance, TypeOK, Machine!TypeOK, Machine!Append, journal
  <1>3. faults' \in 0..MaxFaults
    BY BoundIsNat DEF Advance, Fault, NoFault, TypeOK
  <1>4. QED
    BY <1>1, <1>2, <1>3

\* Each step of a receiving flow keeps the types.
LEMMA ReceiveTyped ==
  ASSUME TypeOK, NEW t \in Transfers, Receive(t)
  PROVE  TypeOK'
  <1> USE Booleans
      DEF config, journal, disk, romm, Steps, Contents, Results
  <1>1. /\ HandOffState(mode) \in Machine!States
        /\ Results \subseteq Machine!States
        /\ {"receiving", "verified_in_staging", "cancelled", "quarantined",
            "verification_conflict", "awaiting_romm_ingestion",
            "source_active"} \subseteq Machine!States
    BY DEF HandOffState, Machine!HandOffState, Machine!States,
           Machine!Terminals, Machine!Reviews, Machine!InFlight
  <1>2. ASSUME NEW to \in Machine!States, NEW next \in Steps,
               Advance(t, to, next),
               UNCHANGED <<config, expected, dest, verdict, disk, romm,
                           advertised>>
        PROVE  TypeOK'
    BY <1>2, AdvanceTyped DEF TypeOK
  <1>3. CASE Start(t) \/ CannotStage(t) \/ StagingFails(t) \/ Reject(t)
    BY <1>1, <1>2, <1>3 DEF Start, CannotStage, StagingFails, Reject
  <1>4. CASE RecordVerified(t) \/ UploadFails(t) \/ RecordAwaiting(t)
    BY <1>1, <1>2, <1>4 DEF RecordVerified, UploadFails, RecordAwaiting
  <1>5. CASE RepublishFails(t) \/ Activate(t)
    BY <1>1, <1>2, <1>5 DEF RepublishFails, Activate
  <1>6. CASE RecordPublished(t) \/ RecordUploading(t)
    BY <1>1, <1>2, <1>6 DEF RecordPublished, RecordUploading
  <1>7. ASSUME PublishFails(t) PROVE TypeOK'
    <2>1. copy' \in [Transfers -> Contents \cup {"none"}]
      BY <1>7 DEF PublishFails, TypeOK
    <2>2. QED
      BY <1>1, <1>7, <2>1, AdvanceTyped DEF PublishFails, TypeOK
  <1>8. ASSUME NEW next \in Steps, Goto(t, next), NoFault,
               UNCHANGED <<config, expected, dest, journal>>,
               verdict' \in [Transfers -> Results \cup {"none"}],
               staged' \in [Transfers -> Contents \cup {"none"}],
               copy' \in [Transfers -> Contents \cup {"none"}],
               old' = old,
               library' \in [Names -> Contents \cup {"none"}],
               indexed' = indexed, touched' \subseteq Names,
               delivered' \subseteq Transfers, outdated' \subseteq Transfers,
               advertised' \subseteq Transfers
        PROVE  TypeOK'
    BY <1>8 DEF Goto, NoFault, TypeOK, Machine!TypeOK
  <1>9. CASE OpenStaging(t) \/ FinishStaging(t)
    BY <1>8, <1>9 DEF OpenStaging, FinishStaging, TypeOK
  <1>21. CASE Verify(t)
    <2>1. staged' \in [Transfers -> Contents \cup {"none"}]
      BY <1>21 DEF Verify, TypeOK
    <2>2. pc' \in [Transfers -> Steps] /\ faults' \in 0..MaxFaults
      BY <1>21, BoundIsNat DEF Verify, TypeOK, Goto, Fault, NoFault
    <2>3. QED
      BY <1>21, <2>1, <2>2 DEF Verify, TypeOK, Machine!TypeOK
  <1>10. CASE Lstat(t) \/ OpenCopy(t) \/ FinishCopy(t)
    BY <1>7, <1>8, <1>10 DEF Lstat, OpenCopy, FinishCopy, TypeOK
  <1>11. CASE Link(t)
    BY <1>7, <1>8, <1>11 DEF Link, TypeOK
  <1>12. CASE SyncDirectory(t)
    BY <1>7, <1>8, <1>12 DEF SyncDirectory, TypeOK
  <1>13. CASE Unlink(t)
    <2>1. /\ staged' \in [Transfers -> Contents \cup {"none"}]
          /\ copy' \in [Transfers -> Contents \cup {"none"}]
      BY <1>13 DEF Unlink, TypeOK
    <2>2. pc' \in [Transfers -> Steps] /\ faults' \in 0..MaxFaults
      BY <1>13, BoundIsNat DEF Unlink, TypeOK, Goto, Fault, NoFault
    <2>3. QED
      BY <1>13, <2>1, <2>2 DEF Unlink, TypeOK, Machine!TypeOK
  <1>14. ASSUME RommAssembles(t)
         PROVE  /\ library' \in [Names -> Contents \cup {"none"}]
                /\ touched' \subseteq Names /\ delivered' \subseteq Transfers
                /\ outdated' \subseteq Transfers /\ indexed' = indexed
    BY <1>14 DEF RommAssembles, Outdate, TypeOK
  <1>15. CASE Upload(t)
    BY <1>8, <1>14, <1>15 DEF Upload, TypeOK
  <1>16. CASE UploadReplyLost(t)
    <2>1. Machine!TypeOK'
      BY <1>1, <1>16 DEF UploadReplyLost, TypeOK, Machine!TypeOK,
                         Machine!Append
    <2>2. pc' \in [Transfers -> Steps] /\ faults' \in 0..MaxFaults
      BY <1>16, BoundIsNat DEF UploadReplyLost, TypeOK, Goto, Fault
    <2>3. QED
      BY <1>14, <1>16, <2>1, <2>2 DEF UploadReplyLost, TypeOK
  <1>17. CASE Observe(t) \/ Deadline(t)
    BY <1>8, <1>17 DEF Observe, Deadline, Decide, Classified, TypeOK
  <1>18. CASE Settle(t)
    <2>1. verdict[t] \in Machine!States \/ verdict[t] = "none"
      BY <1>1 DEF TypeOK
    <2>2. ~Machine!Appendable(state[t], "none")
      BY DEF Machine!Appendable, Machine!CanTransition, Machine!transitions
    <2>3. CASE verdict[t] \in Machine!States
      BY <1>2, <1>18, <2>3 DEF Settle
    <2>4. CASE verdict[t] = "none"
      <3>1. /\ pc' \in [Transfers -> Steps] /\ journal' = journal
            /\ faults' \in 0..MaxFaults
        BY <1>18, <2>2, <2>4, BoundIsNat
        DEF Settle, Advance, Machine!Append, Goto, Fault, NoFault, TypeOK
      <3>2. QED
        BY <1>18, <3>1 DEF Settle, TypeOK, Machine!TypeOK
    <2>5. QED
      BY <2>1, <2>3, <2>4
  <1>19. CASE Republish(t)
    BY <1>8, <1>19 DEF Republish, TypeOK
  <1>20. QED
    BY <1>3, <1>4, <1>5, <1>6, <1>9, <1>10, <1>11, <1>12, <1>13, <1>15, <1>16,
       <1>17, <1>18, <1>19, <1>21 DEF Receive

\* So do the steps around it.
LEMMA AroundTyped ==
  ASSUME TypeOK,
         \/ \E t \in Transfers : GrowOld(t) \/ CleanupAbandoned(t)
         \/ \E n \in Names : RommIndexes(n) \/ Outsider(n)
         \/ Crash
  PROVE  TypeOK'
  <1> USE Booleans, BoundIsNat
      DEF config, journal, disk, romm, Contents, TypeOK, Machine!TypeOK
  <1>1. CASE \E t \in Transfers : GrowOld(t) \/ CleanupAbandoned(t)
    BY <1>1 DEF GrowOld, CleanupAbandoned
  <1>2. CASE \E n \in Names : RommIndexes(n)
    BY <1>2 DEF RommIndexes
  <1>3. CASE \E n \in Names : Outsider(n)
    BY <1>3 DEF Outsider, Outdate, Fault
  <1>4. CASE Crash
    BY <1>4 DEF Crash, Fault, Steps
  <1>5. QED
    BY <1>1, <1>2, <1>3, <1>4

-----------------------------------------------------------------------------
(* What a step of one transfer leaves to the others.                       *)

\* Everything of transfer u stays as it is.
StaysPut(u) ==
  /\ pc'[u] = pc[u] /\ state'[u] = state[u] /\ passed'[u] = passed[u]
  /\ verdict'[u] = verdict[u] /\ staged'[u] = staged[u] /\ copy'[u] = copy[u]

\* A step of transfer t writes only t's own entries and files.
LEMMA ReceiveIsLocal ==
  ASSUME TypeOK, NEW t \in Transfers, Receive(t),
         NEW u \in Transfers, u # t
  PROVE  StaysPut(u)
  <1> USE DEF StaysPut, Goto, journal, disk, TypeOK, Machine!TypeOK,
              Machine!Append
  <1>1. ASSUME NEW to, NEW next, Advance(t, to, next)
        PROVE  /\ pc'[u] = pc[u] /\ state'[u] = state[u]
               /\ passed'[u] = passed[u]
    BY <1>1 DEF Advance
  <1>2. CASE Start(t) \/ CannotStage(t) \/ StagingFails(t) \/ Reject(t)
    BY <1>1, <1>2 DEF Start, CannotStage, StagingFails, Reject
  <1>3. CASE RecordVerified(t) \/ UploadFails(t) \/ RecordAwaiting(t)
    BY <1>1, <1>3 DEF RecordVerified, UploadFails, RecordAwaiting
  <1>4. CASE RepublishFails(t) \/ Activate(t) \/ Settle(t)
    BY <1>1, <1>4 DEF RepublishFails, Activate, Settle
  <1>5. CASE RecordPublished(t) \/ RecordUploading(t)
    BY <1>1, <1>5 DEF RecordPublished, RecordUploading
  <1>6. ASSUME PublishFails(t) PROVE StaysPut(u)
    BY <1>1, <1>6 DEF PublishFails
  <1>7. CASE OpenStaging(t) \/ FinishStaging(t) \/ Verify(t)
    BY <1>7 DEF OpenStaging, FinishStaging, Verify
  <1>8. CASE Lstat(t) \/ OpenCopy(t) \/ FinishCopy(t)
    BY <1>6, <1>8 DEF Lstat, OpenCopy, FinishCopy
  <1>9. CASE Link(t)
    BY <1>6, <1>9 DEF Link
  <1>10. CASE SyncDirectory(t)
    BY <1>6, <1>10 DEF SyncDirectory
  <1>11. CASE Unlink(t)
    BY <1>11 DEF Unlink
  <1>12. CASE Upload(t) \/ UploadReplyLost(t)
    BY <1>12 DEF Upload, UploadReplyLost
  <1>13. CASE Observe(t) \/ Deadline(t)
    BY <1>13 DEF Observe, Deadline, Decide
  <1>14. CASE Republish(t)
    BY <1>14 DEF Republish
  <1>15. QED
    BY <1>2, <1>3, <1>4, <1>5, <1>7, <1>8, <1>9, <1>10, <1>11, <1>12, <1>13,
       <1>14 DEF Receive

\* What the steps of a transfer share with the others, and how they change it.
SharedMoves(t) ==
  /\ UNCHANGED <<config, expected, dest>>
  /\ delivered' \in {delivered, delivered \cup {t}}
  /\ advertised' \in {advertised, advertised \cup {t}}
  /\ outdated \subseteq outdated' /\ touched \subseteq touched'
  /\ \/ UNCHANGED <<library, outdated>>
     \/ /\ library[dest[t]] = "none" \/ Outdate(dest[t])
        /\ library' = [library EXCEPT ![dest[t]] = expected[t]]
        /\ t \in delivered'

\* Whatever reaches the library is the payload its transfer expected.
LEMMA ReceiveShares ==
  ASSUME TypeOK, NEW t \in Transfers, Fits(t), Receive(t)
  PROVE  SharedMoves(t)
  <1> USE DEF SharedMoves, config, romm
  <1>1. CASE Start(t) \/ CannotStage(t) \/ StagingFails(t) \/ Reject(t)
    BY <1>1 DEF Start, CannotStage, StagingFails, Reject
  <1>2. CASE RecordVerified(t) \/ UploadFails(t) \/ RecordAwaiting(t)
    BY <1>2 DEF RecordVerified, UploadFails, RecordAwaiting
  <1>3. CASE RepublishFails(t) \/ Activate(t) \/ Settle(t)
    BY <1>3 DEF RepublishFails, Activate, Settle
  <1>4. CASE RecordPublished(t) \/ RecordUploading(t)
    BY <1>4 DEF RecordPublished, RecordUploading
  <1>5. CASE OpenStaging(t) \/ FinishStaging(t) \/ Verify(t)
    BY <1>5 DEF OpenStaging, FinishStaging, Verify
  <1>6. CASE Lstat(t) \/ OpenCopy(t) \/ FinishCopy(t)
    BY <1>6 DEF Lstat, OpenCopy, FinishCopy, PublishFails
  <1>7. CASE Link(t)
    <2>1. pc[t] = "link" => staged[t] \in {expected[t], "none"}
      BY DEF Fits, DiskFits, Publishing
    <2>2. pc[t] = "link" /\ ~sameFS => copy[t] = expected[t]
      BY DEF Fits, DiskFits
    <2>3. QED
      BY <1>7, <2>1, <2>2 DEF Link, PublishFails
  <1>8. CASE SyncDirectory(t) \/ Unlink(t)
    BY <1>8 DEF SyncDirectory, Unlink, PublishFails
  <1>9. CASE Upload(t) \/ UploadReplyLost(t)
    <2>1. staged[t] = expected[t] /\ RommAssembles(t)
          /\ UNCHANGED <<config, expected, dest, advertised>>
      BY <1>9 DEF Upload, UploadReplyLost, Fits, DiskFits
    <2>2. QED
      BY <2>1 DEF RommAssembles, Outdate
  <1>10. CASE Observe(t) \/ Deadline(t) \/ Republish(t)
    BY <1>10 DEF Observe, Deadline, Decide, Republish
  <1>11. QED
    BY <1>1, <1>2, <1>3, <1>4, <1>5, <1>6, <1>7, <1>8, <1>9, <1>10
    DEF Receive

\* So the other transfers go on fitting.
LEMMA OthersFit ==
  ASSUME FInv, NEW t \in Transfers, Receive(t),
         NEW u \in Transfers, u # t
  PROVE  Fits(u)'
  <1>1. TypeOK /\ Fits(t) /\ Fits(u)
    BY DEF FInv
  <1>2. StaysPut(u) /\ SharedMoves(t)
    BY <1>1, ReceiveIsLocal, ReceiveShares
  <1>3. /\ UNCHANGED <<mode, sameFS, advertises, expected, dest>>
        /\ u \in delivered' <=> u \in delivered
        /\ u \in advertised' <=> u \in advertised
    BY <1>2 DEF SharedMoves, config
  <1>4. PcFits(u)' /\ HandOffFits(u)' /\ DiskFits(u)'
    BY <1>1, <1>2, <1>3
    DEF Fits, PcFits, HandOffFits, DiskFits, StaysPut
  <1>5. verdict[u] = "romm_matched" /\ u \notin outdated'
          => library'[dest[u]] = expected[u]
    <2>1. SUFFICES ASSUME verdict[u] = "romm_matched", u \notin outdated'
                   PROVE  library'[dest[u]] = expected[u]
      OBVIOUS
    <2>2. u \notin outdated /\ library[dest[u]] = expected[u]
      BY <1>1, <1>2, <2>1 DEF Fits, SourceFits, SharedMoves
    <2>3. expected[u] # "none"
      BY <1>1, PayloadsAreContents DEF TypeOK
    <2>4. CASE dest[u] = dest[t]
      BY <1>2, <2>1, <2>2, <2>3, <2>4 DEF SharedMoves, Outdate
    <2>5. CASE dest[u] # dest[t]
      BY <1>1, <1>2, <2>2, <2>5 DEF SharedMoves, TypeOK
    <2>6. QED
      BY <2>4, <2>5
  <1>6. SourceFits(u)'
    BY <1>1, <1>2, <1>3, <1>5 DEF Fits, SourceFits, StaysPut
  <1>7. QED
    BY <1>4, <1>6 DEF Fits

-----------------------------------------------------------------------------
(* What a step of one transfer does to itself.                             *)

\* The only outcomes of writing an entry from a state the machine lets it be
\* written from.
LEMMA AdvanceLands ==
  ASSUME TypeOK, NEW t \in Transfers, NEW to, NEW next,
         Machine!Appendable(state[t], to), Advance(t, to, next)
  PROVE  \/ /\ pc'[t] = next /\ state'[t] = to
            /\ passed'[t] = passed[t] \cup {to}
         \/ /\ pc'[t] = "ended" /\ state'[t] = state[t]
            /\ passed'[t] = passed[t]
         \/ /\ pc'[t] = "ended" /\ state'[t] = to
            /\ passed'[t] = passed[t] \cup {to}
  BY DEF Advance, Machine!Append, Goto, journal, TypeOK, Machine!TypeOK

\* A transfer that moves on fits where it arrives.
LEMMA ItselfFits ==
  ASSUME FInv, NEW t \in Transfers, Receive(t)
  PROVE  Fits(t)'
  <1> USE DEF Fits, PcFits, HandOffFits, DiskFits, SourceFits,
              Staging, Publishing, Delivering
  <1>1. TypeOK /\ Fits(t)
    BY DEF FInv
  <1>2. SharedMoves(t)
    BY <1>1, ReceiveShares
  <1>3. /\ UNCHANGED <<mode, sameFS, advertises, expected, dest>>
        /\ delivered \subseteq delivered'
    BY <1>2 DEF SharedMoves, config
  <1> DEFINE Lands(to, next) ==
        \/ /\ pc'[t] = next /\ state'[t] = to
           /\ passed'[t] = passed[t] \cup {to}
        \/ /\ pc'[t] = "ended" /\ state'[t] = state[t]
           /\ passed'[t] = passed[t]
        \/ /\ pc'[t] = "ended" /\ state'[t] = to
           /\ passed'[t] = passed[t] \cup {to}
  <1>4. ASSUME NEW to, NEW next, Advance(t, to, next),
               Machine!Appendable(state[t], to)
        PROVE  Lands(to, next)
    BY <1>1, <1>4, AdvanceLands
  <1> USE DEF Machine!Appendable, Machine!CanTransition,
              Machine!transitions, Machine!quarantinableFrom, Machine!InFlight
  <1>5. ASSUME Start(t) PROVE Fits(t)'
    <2>1. Lands("receiving", "stage")
      BY <1>1, <1>4, <1>5 DEF Start
    <2>2. QED
      BY <1>1, <1>3, <1>5, <2>1 DEF Start, disk, romm
  <1>6. ASSUME CannotStage(t) \/ StagingFails(t) PROVE Fits(t)'
    <2>1. Lands("cancelled", "ended")
      BY <1>1, <1>4, <1>6 DEF CannotStage, StagingFails
    <2>2. QED
      BY <1>1, <1>3, <1>6, <2>1 DEF CannotStage, StagingFails, disk, romm
  <1>7. ASSUME Reject(t) PROVE Fits(t)'
    <2>1. Lands("verification_conflict", "ended")
      BY <1>1, <1>4, <1>7 DEF Reject
    <2>2. QED
      BY <1>1, <1>3, <1>7, <2>1 DEF Reject, disk, romm
  <1>8. ASSUME RecordVerified(t) PROVE Fits(t)'
    <2>1. Lands("verified_in_staging",
                IF mode = "api_only" THEN "upload" ELSE "lstat")
      BY <1>1, <1>4, <1>8 DEF RecordVerified
    <2>2. mode \in {"api_only", "filesystem_publication"}
      BY <1>1 DEF TypeOK, Machine!Modes
    <2>3. QED
      BY <1>1, <1>3, <1>8, <2>1, <2>2 DEF RecordVerified, disk, romm
  <1>9. ASSUME OpenStaging(t) \/ FinishStaging(t) \/ Verify(t)
        PROVE  Fits(t)'
    BY <1>1, <1>3, <1>9
    DEF OpenStaging, FinishStaging, Verify, Goto, TypeOK, journal, romm
  <1>10. ASSUME PublishFails(t), pc[t] \in Publishing PROVE Fits(t)'
    <2>1. Lands("cancelled", "ended")
      BY <1>1, <1>4, <1>10 DEF PublishFails
    <2>2. QED
      BY <1>1, <1>3, <1>10, <2>1 DEF PublishFails, romm
  <1>11. ASSUME Lstat(t) PROVE Fits(t)'
    BY <1>1, <1>3, <1>10, <1>11
    DEF Lstat, Goto, TypeOK, journal, disk, romm
  <1>12. ASSUME OpenCopy(t) \/ FinishCopy(t) PROVE Fits(t)'
    BY <1>1, <1>3, <1>10, <1>12
    DEF OpenCopy, FinishCopy, Goto, TypeOK, journal, romm
  <1>13. ASSUME Link(t) PROVE Fits(t)'
    <2>1. CASE PublishFails(t) /\ pc[t] = "link"
      BY <1>10, <2>1
    <2>2. CASE pc[t] = "link" /\ ~PublishFails(t)
      <3>1. /\ library[dest[t]] = "none" /\ t \in delivered'
            /\ pc'[t] = "sync" /\ advertised' = advertised
            /\ outdated' = outdated
            /\ UNCHANGED <<verdict, state, passed, staged>>
        BY <1>1, <1>13, <2>2 DEF Link, Goto, TypeOK, journal, disk
      <3>2. verdict[t] = "romm_matched" => t \in outdated
        BY <1>1, <3>1, PayloadsAreContents DEF TypeOK
      <3>3. QED
        BY <1>1, <1>3, <2>2, <3>1, <3>2
    <2>3. QED
      BY <1>13, <2>1, <2>2 DEF Link
  <1>14. ASSUME SyncDirectory(t) PROVE Fits(t)'
    <2>1. CASE PublishFails(t) /\ pc[t] = "sync"
      BY <1>10, <2>1
    <2>2. CASE pc[t] = "sync" /\ ~PublishFails(t)
      <3>1. /\ pc'[t] = "unlink"
            /\ UNCHANGED <<verdict, state, passed, staged, library, delivered,
                           outdated, advertised>>
        BY <1>1, <1>14, <2>2
        DEF SyncDirectory, Goto, TypeOK, journal, romm, disk
      <3>2. QED
        BY <1>1, <1>3, <2>2, <3>1
    <2>3. QED
      BY <1>14, <2>1, <2>2 DEF SyncDirectory
  <1>15. ASSUME Unlink(t) PROVE Fits(t)'
    BY <1>1, <1>3, <1>15 DEF Unlink, Goto, TypeOK, journal, romm
  <1>16. ASSUME RecordPublished(t) PROVE Fits(t)'
    <2>1. HandOffState(mode) = "published_to_filesystem"
      BY <1>1, <1>16
      DEF RecordPublished, HandOffState, Machine!HandOffState
    <2>2. Lands("published_to_filesystem", "handed")
      BY <1>1, <1>4, <1>16, <2>1 DEF RecordPublished
    <2>3. QED
      BY <1>1, <1>3, <1>16, <2>2
      DEF RecordPublished, disk, romm, Machine!HandOffs
  <1>17. ASSUME RecordUploading(t) PROVE Fits(t)'
    <2>1. HandOffState(mode) = "uploading_to_romm"
      BY <1>1, <1>17
      DEF RecordUploading, HandOffState, Machine!HandOffState
    <2>2. Lands("uploading_to_romm", "sending")
      BY <1>1, <1>4, <1>17, <2>1 DEF RecordUploading
    <2>3. QED
      BY <1>1, <1>3, <1>17, <2>2 DEF RecordUploading, disk, romm
  <1>18. ASSUME pc[t] = "sending", staged[t] # "none", RommAssembles(t),
                UNCHANGED <<verdict, disk, advertised>>,
                \/ pc'[t] = "handed" /\ UNCHANGED <<state, passed>>
                \/ /\ pc'[t] = "ended" /\ state'[t] = "verification_conflict"
                   /\ passed'[t] = passed[t] \cup {"verification_conflict"}
         PROVE  Fits(t)'
    <2>1. t \in delivered' /\ Outdate(dest[t])
      BY <1>18 DEF RommAssembles
    <2>2. verdict[t] = "romm_matched" => t \in outdated'
      BY <2>1 DEF Outdate
    <2>3. QED
      BY <1>1, <1>3, <1>18, <2>1, <2>2 DEF disk, Machine!HandOffs
  <1>19. ASSUME Upload(t) PROVE Fits(t)'
    BY <1>1, <1>18, <1>19 DEF Upload, Goto, TypeOK, journal
  <1>20. ASSUME UploadReplyLost(t) PROVE Fits(t)'
    BY <1>1, <1>18, <1>20
    DEF UploadReplyLost, Goto, TypeOK, Machine!TypeOK, Machine!Append
  <1>21. ASSUME UploadFails(t) PROVE Fits(t)'
    <2>1. Lands("verification_conflict", "ended")
      BY <1>1, <1>4, <1>21 DEF UploadFails
    <2>2. QED
      BY <1>1, <1>3, <1>21, <2>1 DEF UploadFails, disk, romm
  <1>22. ASSUME RecordAwaiting(t) PROVE Fits(t)'
    <2>1. Lands("awaiting_romm_ingestion", "await")
      BY <1>1, <1>4, <1>22 DEF RecordAwaiting, Machine!HandOffs
    <2>2. QED
      BY <1>1, <1>3, <1>22, <2>1
      DEF RecordAwaiting, disk, romm, Machine!HandOffs
  <1>23. ASSUME NEW result \in Results, Decide(t, result), pc[t] = "await",
                result = "romm_matched" => library[dest[t]] = expected[t]
         PROVE  Fits(t)'
    BY <1>1, <1>3, <1>23 DEF Decide, Goto, TypeOK, journal, disk, romm
  <1>24. ASSUME Observe(t) \/ Deadline(t) PROVE Fits(t)'
    BY <1>23, <1>24 DEF Observe, Deadline, Classified, Results
  <1>25. ASSUME Settle(t) PROVE Fits(t)'
    <2> DEFINE next == IF verdict[t] # "romm_matched" THEN "ended"
                       ELSE IF advertises THEN "republish" ELSE "activate"
    <2>1. verdict[t] \in Results /\ pc[t] = "settle"
      BY <1>1, <1>25 DEF Settle
    <2>2. Lands(verdict[t], next)
      BY <1>1, <1>4, <1>25, <2>1 DEF Settle, Results
    <2>3. UNCHANGED <<verdict, staged, copy, library, delivered, outdated,
                      advertised>>
      BY <1>25 DEF Settle, disk, romm
    <2>4. advertises \in BOOLEAN
      BY <1>1 DEF TypeOK
    <2>5. CASE verdict[t] # "romm_matched"
      BY <1>1, <1>3, <2>1, <2>2, <2>3, <2>5 DEF Results
    <2>6. CASE verdict[t] = "romm_matched" /\ advertises
      BY <1>1, <1>3, <2>1, <2>2, <2>3, <2>6
    <2>7. CASE verdict[t] = "romm_matched" /\ ~advertises
      BY <1>1, <1>3, <2>1, <2>2, <2>3, <2>7
    <2>8. QED
      BY <2>4, <2>5, <2>6, <2>7
  <1>26. ASSUME Republish(t) PROVE Fits(t)'
    BY <1>1, <1>3, <1>26 DEF Republish, Goto, TypeOK, journal, disk, romm
  <1>27. ASSUME RepublishFails(t) PROVE Fits(t)'
    <2>1. Lands("quarantined", "ended")
      BY <1>1, <1>4, <1>27 DEF RepublishFails
    <2>2. QED
      BY <1>1, <1>3, <1>27, <2>1 DEF RepublishFails, disk, romm
  <1>28. ASSUME Activate(t) PROVE Fits(t)'
    <2>1. Lands("source_active", "ended")
      BY <1>1, <1>4, <1>28 DEF Activate
    <2>2. QED
      BY <1>1, <1>3, <1>28, <2>1 DEF Activate, disk, romm
  <1>29. QED
    BY <1>5, <1>6, <1>7, <1>8, <1>9, <1>11, <1>12, <1>13, <1>14, <1>15, <1>16,
       <1>17, <1>19, <1>20, <1>21, <1>22, <1>24, <1>25, <1>26, <1>27, <1>28
    DEF Receive

\* The steps around the flow leave every transfer fitting too: a crash only
\* stops it, and a rewritten name outdates the verdicts about it.
LEMMA AroundFits ==
  ASSUME FInv,
         \/ \E t \in Transfers : GrowOld(t) \/ CleanupAbandoned(t)
         \/ \E n \in Names : RommIndexes(n) \/ Outsider(n)
         \/ Crash,
         NEW u \in Transfers
  PROVE  Fits(u)'
  <1> USE DEF Fits, PcFits, HandOffFits, DiskFits, SourceFits,
              Staging, Publishing, Delivering, config, journal
  <1>1. TypeOK /\ Fits(u)
    BY DEF FInv
  <1>2. CASE \E t \in Transfers : GrowOld(t) \/ CleanupAbandoned(t)
    BY <1>1, <1>2 DEF GrowOld, CleanupAbandoned, romm, TypeOK
  <1>3. CASE \E n \in Names : RommIndexes(n)
    BY <1>1, <1>3 DEF RommIndexes, disk
  <1>4. CASE \E n \in Names : Outsider(n)
    BY <1>1, <1>4 DEF Outsider, Outdate, disk, TypeOK
  <1>5. CASE Crash
    BY <1>1, <1>5 DEF Crash, disk, romm, TypeOK
  <1>6. QED
    BY <1>2, <1>3, <1>4, <1>5

\* What the library holds under untouched names stays verified.
LEMMA LibraryStep ==
  ASSUME FInv, Next
  PROVE  LibraryIsVerified'
  <1>1. TypeOK /\ LibraryIsVerified /\ \A t \in Transfers : Fits(t)
    BY DEF FInv
  <1>2. CASE \E t \in Transfers : Receive(t)
    <2>1. PICK t \in Transfers : Receive(t)
      BY <1>2
    <2>2. SharedMoves(t)
      BY <1>1, <2>1, ReceiveShares
    <2>3. UNCHANGED <<expected, dest>> /\ delivered \subseteq delivered'
          /\ touched \subseteq touched'
      BY <2>2 DEF SharedMoves
    <2>4. \A n \in Names : \/ library'[n] = library[n]
                           \/ /\ n = dest[t] /\ library'[n] = expected[t]
                              /\ t \in delivered'
      BY <1>1, <2>2 DEF SharedMoves, TypeOK
    <2>5. QED
      BY <1>1, <2>3, <2>4 DEF LibraryIsVerified
  <1>3. CASE \E t \in Transfers : GrowOld(t) \/ CleanupAbandoned(t)
    BY <1>1, <1>3 DEF GrowOld, CleanupAbandoned, romm, LibraryIsVerified
  <1>4. CASE \E n \in Names : RommIndexes(n)
    BY <1>1, <1>4 DEF RommIndexes, LibraryIsVerified
  <1>5. CASE \E n \in Names : Outsider(n)
    BY <1>1, <1>5 DEF Outsider, LibraryIsVerified, TypeOK
  <1>6. CASE Crash
    BY <1>1, <1>6 DEF Crash, romm, LibraryIsVerified
  <1>7. QED
    BY <1>2, <1>3, <1>4, <1>5, <1>6 DEF Next

\* FInv is inductive.
LEMMA FInvStep == FInv /\ [Next]_vars => FInv'
  <1> SUFFICES ASSUME FInv, [Next]_vars PROVE FInv'
    OBVIOUS
  <1>1. CASE Next
    <2>1. TypeOK'
      BY <1>1, ReceiveTyped, AroundTyped DEF Next, FInv
    <2>2. ASSUME NEW u \in Transfers PROVE Fits(u)'
      <3>1. CASE \E t \in Transfers : Receive(t)
        BY <3>1, ItselfFits, OthersFit
      <3>2. QED
        BY <1>1, <3>1, AroundFits DEF Next
    <2>3. QED
      BY <1>1, <2>1, <2>2, LibraryStep DEF FInv
  <1>2. CASE UNCHANGED vars
    BY <1>2 DEF vars, config, journal, disk, romm, FInv, TypeOK,
                Machine!TypeOK, LibraryIsVerified, Fits, PcFits, HandOffFits,
                DiskFits, SourceFits
  <1>3. QED
    BY <1>1, <1>2

\* FInv holds throughout.
LEMMA FlowInvariant == Spec => []FInv
  <1>1. QED
    BY InitInv, FInvStep, PTL DEF Spec

\* Types, for every number of transfers and faults.
THEOREM FlowTyped == Spec => []TypeOK
  <1>1. FInv => TypeOK
    BY DEF FInv
  <1>2. QED
    BY <1>1, FlowInvariant, PTL

\* The journal never refuses what the flow asks of it.
THEOREM FlowIsNeverRefused == Spec => []NeverRefused
  <1>1. FInv => NeverRefused
    BY DEF FInv, NeverRefused, Fits, PcFits
  <1>2. QED
    BY <1>1, FlowInvariant, PTL

\* Only complete, verified, expected payloads appear under final names.
THEOREM OnlyVerifiedPublished == Spec => []LibraryIsVerified
  <1>1. FInv => LibraryIsVerified
    BY DEF FInv
  <1>2. QED
    BY <1>1, FlowInvariant, PTL

\* What the journal says of a hand-off is true, crashes included.
THEOREM JournalIsTrue == Spec => []JournalTellsTheTruth
  <1>1. FInv => JournalTellsTheTruth
    BY DEF FInv, JournalTellsTheTruth, Fits, HandOffFits
  <1>2. QED
    BY <1>1, FlowInvariant, PTL

\* A source holds, and its manifest names, what RomM matched.
THEOREM SourcesAreReal == Spec => []SourceIsReal
  <1>1. FInv => SourceIsReal
    BY DEF FInv, SourceIsReal, SourceIsHeld, SourceIsFindable, Fits, SourceFits
  <1>2. QED
    BY <1>1, FlowInvariant, PTL

-----------------------------------------------------------------------------
\* Each step writes one legal entry to the journal, or none.
LEMMA JournalStep ==
  ASSUME TypeOK, Next
  PROVE  Machine!Next \/ UNCHANGED journal
  <1>1. /\ HandOffState(mode) \in Machine!States
        /\ Results \subseteq Machine!States
        /\ {"receiving", "verified_in_staging", "cancelled", "quarantined",
            "verification_conflict", "awaiting_romm_ingestion",
            "source_active"} \subseteq Machine!States
    BY DEF HandOffState, Machine!HandOffState, Machine!States, Results,
           Machine!Terminals, Machine!Reviews, Machine!InFlight
  <1>2. ASSUME NEW t \in Transfers, NEW to \in Machine!States, NEW next,
               Advance(t, to, next)
        PROVE  Machine!Next \/ UNCHANGED journal
    BY <1>2 DEF Advance, Machine!Next
  <1>3. ASSUME NEW t \in Transfers, NEW to \in Machine!States,
               Machine!Append(t, to)
        PROVE  Machine!Next
    BY <1>3 DEF Machine!Next
  <1>4. ASSUME NEW t \in Transfers, Receive(t)
        PROVE  Machine!Next \/ UNCHANGED journal
    <2>1. CASE Start(t) \/ CannotStage(t) \/ StagingFails(t) \/ Reject(t)
      BY <1>1, <1>2, <2>1 DEF Start, CannotStage, StagingFails, Reject
    <2>2. CASE RecordVerified(t) \/ UploadFails(t) \/ RecordAwaiting(t)
      BY <1>1, <1>2, <2>2 DEF RecordVerified, UploadFails, RecordAwaiting
    <2>3. CASE RepublishFails(t) \/ Activate(t)
      BY <1>1, <1>2, <2>3 DEF RepublishFails, Activate
    <2>4. CASE RecordPublished(t) \/ RecordUploading(t)
      BY <1>1, <1>2, <2>4 DEF RecordPublished, RecordUploading
    <2>5. CASE OpenStaging(t) \/ FinishStaging(t) \/ Verify(t)
      BY <2>5 DEF OpenStaging, FinishStaging, Verify
    <2>6. CASE Lstat(t) \/ OpenCopy(t) \/ FinishCopy(t) \/ Link(t)
      BY <1>1, <1>2, <2>6 DEF Lstat, OpenCopy, FinishCopy, Link, PublishFails
    <2>7. CASE SyncDirectory(t)
      BY <1>1, <1>2, <2>7 DEF SyncDirectory, PublishFails
    <2>8. CASE Unlink(t) \/ Upload(t)
      BY <2>8 DEF Unlink, Upload
    <2>9. CASE UploadReplyLost(t)
      BY <1>1, <1>3, <2>9 DEF UploadReplyLost
    <2>10. CASE Observe(t) \/ Deadline(t) \/ Republish(t)
      BY <2>10 DEF Observe, Deadline, Decide, Republish
    <2>11. CASE Settle(t)
      <3>1. verdict[t] \in Machine!States \/ verdict[t] = "none"
        BY <1>1 DEF TypeOK
      <3>2. ~Machine!Appendable(state[t], "none")
        BY DEF Machine!Appendable, Machine!CanTransition, Machine!transitions
      <3>3. CASE verdict[t] = "none"
        BY <2>11, <3>2, <3>3 DEF Settle, Advance, Machine!Append
      <3>4. CASE verdict[t] \in Machine!States
        BY <1>2, <2>11, <3>4 DEF Settle
      <3>5. QED
        BY <3>1, <3>3, <3>4
    <2>12. QED
      BY <1>4, <2>1, <2>2, <2>3, <2>4, <2>5, <2>6, <2>7, <2>8, <2>9, <2>10,
         <2>11 DEF Receive
  <1>5. CASE \E t \in Transfers : GrowOld(t) \/ CleanupAbandoned(t)
    BY <1>5 DEF GrowOld, CleanupAbandoned
  <1>6. CASE \E n \in Names : RommIndexes(n) \/ Outsider(n)
    BY <1>6 DEF RommIndexes, Outsider
  <1>7. CASE Crash
    BY <1>7 DEF Crash
  <1>8. QED
    BY <1>4, <1>5, <1>6, <1>7 DEF Next

\* So the journal is a behaviour of the machine, by Append's own check.
LEMMA JournalIsMachine == Spec => Machine!Spec
  <1>1. Init => Machine!Init
    BY DEF Init
  <1>2. TypeOK /\ [Next]_vars => [Machine!Next]_(Machine!vars)
    BY JournalStep DEF Machine!vars, vars, journal
  <1>3. QED
    BY <1>1, <1>2, FlowTyped, PTL DEF Spec, Machine!Spec

\* The receiving flow implements the destination state machine: whatever
\* fails or crashes, what it asks its journal to record is a behaviour of that
\* machine, and the journal's check has nothing to keep out.
THEOREM FlowImplementsMachine == Spec => ImplementsMachine
  <1>1. ASSUME Init PROVE Requests!Init
    <2>1. Machine!Init /\ \A t \in Transfers : pc[t] = "idle"
      BY <1>1 DEF Init
    <2>2. QED
      BY <2>1 DEF Requests!Init, Machine!Init, Requested
  <1>2. ASSUME TypeOK, NeverRefused PROVE Requested = state
    BY <1>2 DEF Requested, NeverRefused, TypeOK, Machine!TypeOK
  <1>3. ASSUME TypeOK', NeverRefused' PROVE Requested' = state'
    BY <1>3 DEF Requested, NeverRefused, TypeOK, Machine!TypeOK
  <1>4. TypeOK /\ NeverRefused /\ TypeOK' /\ NeverRefused' /\ [Next]_vars
          => [Requests!Next]_(Requests!vars)
    <2> SUFFICES ASSUME TypeOK, NeverRefused, TypeOK', NeverRefused', [Next]_vars
                 PROVE  [Requests!Next]_(Requests!vars)
      OBVIOUS
    <2>1. Machine!Next \/ UNCHANGED journal
      BY JournalStep DEF vars, journal
    <2>2. Requested = state /\ Requested' = state'
      BY <1>2, <1>3
    <2>3. CASE Machine!Next
      <3>1. PICK t \in Transfers, to \in Machine!States : Machine!Append(t, to)
        BY <2>3 DEF Machine!Next
      <3>2. Requests!Append(t, to)
        BY <2>2, <3>1
        DEF Machine!Append, Requests!Append, Machine!Appendable,
            Requests!Appendable, Machine!CanTransition, Requests!CanTransition,
            Machine!transitions, Requests!transitions,
            Machine!quarantinableFrom, Requests!quarantinableFrom,
            Machine!InFlight, Requests!InFlight
      <3>3. to \in Requests!States
        BY <3>1 DEF Machine!States, Requests!States, Machine!Terminals,
                    Requests!Terminals, Machine!Reviews, Requests!Reviews,
                    Machine!InFlight, Requests!InFlight
      <3>4. QED
        BY <3>2, <3>3 DEF Requests!Next
    <2>4. CASE UNCHANGED journal
      BY <2>2, <2>4 DEF Requests!vars, journal
    <2>5. QED
      BY <2>1, <2>3, <2>4
  <1>5. QED
    BY <1>1, <1>4, FlowTyped, FlowIsNeverRefused, PTL
    DEF Spec, ImplementsMachine, Requests!Spec

\* In filesystem mode no step but an outsider's changes a name that is taken.
THEOREM PublicationNeverOverwrites == Spec => NeverOverwrites
  <1> DEFINE Kept ==
        \A n \in Names :
          mode = "filesystem_publication" /\ library[n] # "none"
            => \/ library'[n] = library[n]
               \/ n \in touched' /\ faults' > faults
  <1>1. FInv /\ [Next]_vars => [Kept]_vars
    <2> SUFFICES ASSUME FInv, Next PROVE Kept
      OBVIOUS
    <2>1. TypeOK /\ faults \in Nat
      BY BoundIsNat DEF FInv, TypeOK
    <2>2. ASSUME NEW t \in Transfers, Receive(t) PROVE Kept
      <3>1. CASE UNCHANGED library
        BY <3>1
      <3>2. CASE Link(t)
        BY <2>1, <3>2 DEF Link, PublishFails, romm, TypeOK
      <3>3. CASE Upload(t) \/ UploadReplyLost(t)
        BY <3>3 DEF Upload, UploadReplyLost, FInv, Fits, PcFits
      <3>4. QED
        BY <2>2, <3>1, <3>2, <3>3
        DEF Receive, Start, CannotStage, OpenStaging, FinishStaging,
            StagingFails, Verify, Reject, RecordVerified, Lstat, OpenCopy,
            FinishCopy, PublishFails, SyncDirectory, Unlink, RecordPublished,
            RecordUploading, UploadFails, RecordAwaiting, Observe, Deadline,
            Decide, Settle, Republish, RepublishFails, Activate, romm
    <2>3. CASE \E t \in Transfers : GrowOld(t) \/ CleanupAbandoned(t)
      BY <2>3 DEF GrowOld, CleanupAbandoned, romm
    <2>4. CASE \E n \in Names : RommIndexes(n) \/ Outsider(n)
      BY <2>1, <2>4 DEF RommIndexes, Outsider, Fault, TypeOK
    <2>5. CASE Crash
      BY <2>5 DEF Crash, romm
    <2>6. QED
      BY <2>2, <2>3, <2>4, <2>5 DEF Next
  <1>2. QED
    BY <1>1, FlowInvariant, PTL DEF Spec, NeverOverwrites

-----------------------------------------------------------------------------
(* What the destination state machine promises by itself, and through the  *)
(* refinement the flow.  The invariant says what each state implies about  *)
(* the history that led to it.                                             *)

Unverified == {"none", "receiving"}
HandedOver == {"awaiting_romm_ingestion", "romm_matched", "source_active"}

\* The history of a transfer in state s.
HistoryFits(s, h) ==
  /\ s \in Unverified => h \subseteq {"receiving"}
  /\ s \in {"verified_in_staging", "cancelled"} => h \cap Machine!HandOffs = {}
  /\ s \in Machine!HandOffs => h \cap Machine!HandOffs = {s}
  /\ s \in {"verified_in_staging"} \cup Machine!HandOffs \cup HandedOver
       => "verified_in_staging" \in h
  /\ s \in HandedOver => "awaiting_romm_ingestion" \in h
                         /\ h \cap Machine!HandOffs # {}
  /\ s \in {"romm_matched", "source_active"} => "romm_matched" \in h
  /\ ~(Machine!HandOffs \subseteq h)

MInv == Machine!TypeOK /\ \A t \in Transfers : HistoryFits(state[t], passed[t])

\* One move keeps a history fitting its state.
LEMMA MoveFits ==
  ASSUME NEW s \in Machine!States \cup {"none"}, NEW h \in SUBSET Machine!States,
         HistoryFits(s, h), NEW to \in Machine!States, Machine!Appendable(s, to)
  PROVE  HistoryFits(to, h \cup {to})
  <1> USE DEF HistoryFits, Unverified, HandedOver, Machine!HandOffs
  <1>1. CASE s = "none"
    BY <1>1 DEF Machine!Appendable
  <1>2. CASE s # "none" /\ to = "quarantined"
    BY <1>2
  <1>3. CASE s # "none" /\ to # "quarantined"
    <2>1. to \in Machine!transitions(s)
      BY <1>3 DEF Machine!Appendable, Machine!CanTransition
    <2>2. CASE s = "receiving"
      BY <2>1, <2>2 DEF Machine!transitions
    <2>3. CASE s = "verified_in_staging"
      BY <2>1, <2>3 DEF Machine!transitions
    <2>4. CASE s = "uploading_to_romm"
      BY <2>1, <2>4 DEF Machine!transitions
    <2>5. CASE s = "published_to_filesystem"
      BY <2>1, <2>5 DEF Machine!transitions
    <2>6. CASE s = "awaiting_romm_ingestion"
      BY <2>1, <2>6 DEF Machine!transitions
    <2>7. CASE s = "romm_matched"
      BY <2>1, <2>7 DEF Machine!transitions
    <2>8. s \in {"receiving", "verified_in_staging", "uploading_to_romm",
                 "published_to_filesystem", "awaiting_romm_ingestion",
                 "romm_matched"}
      BY <2>1 DEF Machine!transitions
    <2>9. QED
      BY <2>2, <2>3, <2>4, <2>5, <2>6, <2>7, <2>8
  <1>4. QED
    BY <1>1, <1>2, <1>3

\* MInv is inductive.
LEMMA MachineInvariant == Machine!Spec => []MInv
  <1>1. Machine!Init => MInv
    BY DEF Machine!Init, MInv, Machine!TypeOK, HistoryFits, Unverified,
           HandedOver, Machine!HandOffs
  <1>2. MInv /\ [Machine!Next]_(Machine!vars) => MInv'
    <2> SUFFICES ASSUME MInv, [Machine!Next]_(Machine!vars) PROVE MInv'
      OBVIOUS
    <2>1. CASE UNCHANGED Machine!vars
      BY <2>1 DEF MInv, Machine!TypeOK, Machine!vars
    <2>2. ASSUME NEW t \in Transfers, NEW to \in Machine!States,
                 Machine!Append(t, to)
          PROVE  MInv'
      <3>1. /\ state[t] \in Machine!States \cup {"none"}
            /\ passed[t] \in SUBSET Machine!States
            /\ HistoryFits(state[t], passed[t])
            /\ Machine!Appendable(state[t], to)
        BY <2>2 DEF MInv, Machine!TypeOK, Machine!Append
      <3>2. HistoryFits(to, passed[t] \cup {to})
        BY <3>1, MoveFits
      <3>3. Machine!TypeOK'
        BY <2>2, <3>1 DEF MInv, Machine!TypeOK, Machine!Append
      <3>4. ASSUME NEW u \in Transfers PROVE HistoryFits(state'[u], passed'[u])
        <4>1. CASE u = t
          BY <2>2, <3>2, <4>1 DEF MInv, Machine!TypeOK, Machine!Append
        <4>2. CASE u # t
          <5>1. state'[u] = state[u] /\ passed'[u] = passed[u]
            BY <2>2, <4>2 DEF MInv, Machine!TypeOK, Machine!Append
          <5>2. QED
            BY <5>1 DEF MInv
        <4>3. QED
          BY <4>1, <4>2
      <3>5. QED
        BY <3>3, <3>4 DEF MInv
    <2>3. QED
      BY <2>1, <2>2 DEF Machine!Next
  <1>3. QED
    BY <1>1, <1>2, PTL DEF Machine!Spec

Promises ==
  /\ Machine!SourceEarnedIt /\ Machine!HandedOffIsNotCancelled
  /\ Machine!OneHandOff

\* A source was verified, handed off, awaited and matched; a transfer handed
\* off is never cancelled; and no transfer is handed off both ways.
THEOREM MachinePromises == Machine!Spec => []Promises
  <1>1. MInv => Promises
    BY DEF MInv, HistoryFits, HandedOver, Promises, Machine!SourceEarnedIt,
           Machine!HandedOffIsNotCancelled, Machine!OneHandOff
  <1>2. QED
    BY <1>1, MachineInvariant, PTL

\* And so it is with the flow's journal, over failures, crashes and restarts
\* of the daemon.
COROLLARY FlowKeepsPromises == Spec => []Promises
  BY JournalIsMachine, MachinePromises, PTL

=============================================================================
