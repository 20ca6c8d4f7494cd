---------------------------- MODULE ReceivingFlow ----------------------------
(***************************************************************************)
(* Flow.Receive (bridge/ingest/flow.go) run for several transfers at once, *)
(* with the staging directory and the publisher it drives                  *)
(* (bridge/destination), the upload to RomM (rommuploader.go), the wait    *)
(* for RomM to index and match (reconcile.go, rommlibrary.go) and the      *)
(* journal (filejournal.go).  Other processes share the library and the    *)
(* names in it; a crash of the Bridge ends every transfer where it stands. *)
(*                                                                         *)
(* A payload is a member of Payloads; "part" is any bytes that are nobody's *)
(* payload, and "none" is a name that does not exist.                      *)
(***************************************************************************)
EXTENDS FiniteSets, Naturals

CONSTANTS
  Transfers,   \* transfer ids, each used once: NewTransferID is random
  Payloads,    \* the identities a sender may send or a transfer may expect
  Names,       \* destination names beneath the library root
  MaxFaults    \* bound: I/O errors, lost replies, crashes, outsiders' writes

ASSUME BoundIsNat == MaxFaults \in Nat
ASSUME PayloadsAreContents == Payloads \cap {"part", "none"} = {}

VARIABLES
  \* Configuration, fixed at the start.
  mode,      \* the Bridge's DestinationMode
  sameFS,    \* receive staging shares the library's filesystem
  advertises,\* Flow.Manifest is configured
  \* One per transfer.
  pc,        \* the next step of its Receive
  expected,  \* Expected.Canonical
  dest,      \* relativeDest
  verdict,   \* the Result its Await returned
  state, passed,   \* its journal
  staged,    \* what its .part file holds
  old,       \* its .part file has gone untouched for the cleanup's window
  copy,      \* what its temporary copy on the library filesystem holds
  \* Shared with RomM.
  library,   \* what each name of the library holds
  indexed,   \* the names RomM lists
  touched,   \* names that something other than a publication has written
  advertised,\* transfers whose item Republish has put in the manifest
  \* History and bounds.
  delivered, \* transfers whose payload RomM or the library has received
  outdated,  \* transfers whose name was rewritten after their verdict
  faults

config == <<mode, sameFS, advertises>>
journal == <<state, passed>>
disk == <<staged, old, copy>>
romm == <<library, indexed, touched, delivered, outdated>>
vars == <<config, pc, expected, dest, verdict, journal, disk, romm,
          advertised, faults>>

Machine == INSTANCE DestinationMachine
             WITH Transfers <- Transfers, state <- state, passed <- passed
HandOffState(m) == Machine!HandOffState(m)

Contents == Payloads \cup {"part"}
Results == {"romm_matched", "romm_unmatched", "ingestion_timeout"}
Steps == {"idle", "stage", "write", "verify", "reject", "verified", "lstat",
          "copy", "copying", "link", "sync", "unlink", "published", "upload",
          "sending", "handed", "await", "settle", "republish", "activate",
          "ended", "refused", "dead"}

Init ==
  /\ mode \in Machine!Modes /\ sameFS \in BOOLEAN /\ advertises \in BOOLEAN
  /\ pc = [t \in Transfers |-> "idle"]
  /\ expected \in [Transfers -> Payloads]
  /\ dest \in [Transfers -> Names]
  /\ verdict = [t \in Transfers |-> "none"]
  /\ Machine!Init
  /\ staged = [t \in Transfers |-> "none"]
  /\ old = [t \in Transfers |-> FALSE]
  /\ copy = [t \in Transfers |-> "none"]
  /\ library = [n \in Names |-> "none"]
  /\ indexed = {} /\ touched = {} /\ advertised = {} /\ delivered = {}
  /\ outdated = {}
  /\ faults = 0

Fault == faults < MaxFaults /\ faults' = faults + 1
NoFault == UNCHANGED faults

Goto(t, next) == pc' = [pc EXCEPT ![t] = next]

\* Flow.advance and Journal.Append: the entry is written and the flow goes on;
\* or it is illegal, and refused; or Append fails, before the rename of the
\* transfer's file or behind it, where the entry stands.  Either way the
\* transfer ends there, for the callers that ignore the error end it too.
Advance(t, to, next) ==
  \/ /\ Machine!Append(t, to) /\ Goto(t, next) /\ NoFault
  \/ /\ ~Machine!Appendable(state[t], to)
     /\ Goto(t, "refused") /\ NoFault /\ UNCHANGED journal
  \/ /\ Goto(t, "ended") /\ Fault
     /\ UNCHANGED journal \/ Machine!Append(t, to)

-----------------------------------------------------------------------------
(* Steps 1 to 4: receive into staging and verify there.                    *)

Start(t) ==
  /\ pc[t] = "idle"
  /\ Advance(t, "receiving", "stage")
  /\ UNCHANGED <<config, expected, dest, verdict, disk, romm, advertised>>

\* CheckSpace refuses, or the .part file cannot be opened.
CannotStage(t) ==
  /\ pc[t] = "stage"
  /\ Advance(t, "cancelled", "ended")
  /\ UNCHANGED <<config, expected, dest, verdict, disk, romm, advertised>>

OpenStaging(t) ==
  /\ pc[t] = "stage"
  /\ staged' = [staged EXCEPT ![t] = "part"]
  /\ Goto(t, "write") /\ NoFault
  /\ UNCHANGED <<config, expected, dest, verdict, journal, old, copy, romm,
                 advertised>>

\* The stream ends and the file is fsynced.  A stream that stops early or
\* carries other bytes ends like any other.
FinishStaging(t) ==
  /\ pc[t] = "write"
  /\ \E c \in Contents : staged' = [staged EXCEPT ![t] = c]
  /\ Goto(t, "verify") /\ NoFault
  /\ UNCHANGED <<config, expected, dest, verdict, journal, old, copy, romm,
                 advertised>>

\* Reading the stream or writing the file fails; the .part file stays.
StagingFails(t) ==
  /\ pc[t] = "write"
  /\ Advance(t, "cancelled", "ended")
  /\ UNCHANGED <<config, expected, dest, verdict, disk, romm, advertised>>

\* Staging.Verify reads the file back; Abandon follows a refusal at once.  A
\* file that cannot be read is refused like one that does not match, and
\* Abandon may fail to remove it.
Verify(t) ==
  /\ pc[t] = "verify"
  /\ \/ /\ staged[t] = expected[t] /\ NoFault
        /\ Goto(t, "verified") /\ UNCHANGED staged
     \/ /\ staged[t] # expected[t] /\ NoFault
        /\ staged' = [staged EXCEPT ![t] = "none"]
        /\ Goto(t, "reject")
     \/ /\ Fault
        /\ staged' = staged \/ staged' = [staged EXCEPT ![t] = "none"]
        /\ Goto(t, "reject")
  /\ UNCHANGED <<config, expected, dest, verdict, journal, old, copy, romm,
                 advertised>>

Reject(t) ==
  /\ pc[t] = "reject"
  /\ Advance(t, "verification_conflict", "ended")
  /\ UNCHANGED <<config, expected, dest, verdict, disk, romm, advertised>>

RecordVerified(t) ==
  /\ pc[t] = "verified"
  /\ Advance(t, "verified_in_staging",
             IF mode = "api_only" THEN "upload" ELSE "lstat")
  /\ UNCHANGED <<config, expected, dest, verdict, disk, romm, advertised>>

-----------------------------------------------------------------------------
(* Step 5 in filesystem publication mode: Publisher.Publish.               *)

\* Publish returns an error: its deferred Remove drops the copy, and the
\* transfer is cancelled.
PublishFails(t) ==
  /\ Advance(t, "cancelled", "ended")
  /\ copy' = [copy EXCEPT ![t] = "none"]
  /\ UNCHANGED <<config, expected, dest, verdict, staged, old, romm,
                 advertised>>

\* The library root, the final directory and both devices are looked up
\* around the check; any of these may fail, whatever holds the name.
Lstat(t) ==
  /\ pc[t] = "lstat"
  /\ \/ /\ library[dest[t]] = "none" /\ staged[t] # "none"
        /\ Goto(t, IF sameFS THEN "link" ELSE "copy") /\ NoFault
        /\ UNCHANGED <<config, expected, dest, verdict, journal, disk, romm,
                       advertised>>
     \/ PublishFails(t)

OpenCopy(t) ==
  /\ pc[t] = "copy"
  /\ \/ /\ staged[t] # "none"
        /\ copy' = [copy EXCEPT ![t] = "part"]
        /\ Goto(t, "copying") /\ NoFault
        /\ UNCHANGED <<config, expected, dest, verdict, journal, staged, old,
                       romm, advertised>>
     \/ PublishFails(t)

\* Mistake: the copy is not verified again.
FinishCopyUnverified(t) ==
  /\ pc[t] = "copying"
  /\ \E c \in {expected[t], "part"} : copy' = [copy EXCEPT ![t] = c]
  /\ Goto(t, "link") /\ NoFault
  /\ UNCHANGED <<config, expected, dest, verdict, journal, staged, old, romm,
                 advertised>>

\* copyToDestinationFilesystem hashes what it copies, and keeps only a match.
FinishCopy(t) ==
  /\ pc[t] = "copying"
  /\ \/ /\ copy' = [copy EXCEPT ![t] = expected[t]]
        /\ Goto(t, "link") /\ NoFault
        /\ UNCHANGED <<config, expected, dest, verdict, journal, staged, old,
                       romm, advertised>>
     \/ PublishFails(t)

\* Mistake: a rename, which replaces whatever holds the name.
LinkReplacing(t) ==
  /\ pc[t] = "link"
  /\ LET source == IF sameFS THEN staged[t] ELSE copy[t] IN
     /\ source # "none"
     /\ library' = [library EXCEPT ![dest[t]] = source]
     /\ delivered' = delivered \cup {t}
     /\ Goto(t, "sync") /\ NoFault
     /\ UNCHANGED <<config, expected, dest, verdict, journal, disk,
                    indexed, touched, outdated, advertised>>

\* Mistake: a name already there is taken for this publication's own.
LinkTolerant(t) ==
  /\ pc[t] = "link"
  /\ LET source == IF sameFS THEN staged[t] ELSE copy[t] IN
     /\ library' = IF library[dest[t]] # "none" THEN library
                   ELSE [library EXCEPT ![dest[t]] = source]
     /\ delivered' = IF library[dest[t]] # "none" THEN delivered
                     ELSE delivered \cup {t}
     /\ Goto(t, "sync") /\ NoFault
     /\ UNCHANGED <<config, expected, dest, verdict, journal, disk,
                    indexed, touched, outdated, advertised>>

\* os.Link never replaces a name, and may fail where there is none.
Link(t) ==
  /\ pc[t] = "link"
  /\ LET source == IF sameFS THEN staged[t] ELSE copy[t] IN
     \/ /\ source # "none" /\ library[dest[t]] = "none"
        /\ library' = [library EXCEPT ![dest[t]] = source]
        /\ delivered' = delivered \cup {t}
        /\ Goto(t, "sync") /\ NoFault
        /\ UNCHANGED <<config, expected, dest, verdict, journal, disk,
                       indexed, touched, outdated, advertised>>
     \/ PublishFails(t)

\* syncDir fails only where the directory cannot be opened, and Publish then
\* fails with the link in place.
SyncDirectory(t) ==
  /\ pc[t] = "sync"
  /\ \/ /\ Goto(t, "unlink") /\ NoFault
        /\ UNCHANGED <<config, expected, dest, verdict, journal, disk, romm,
                       advertised>>
     \/ PublishFails(t)

\* One name is left: the staged file goes, or the temporary copy does.  A
\* Remove that fails is forgiven.
Unlink(t) ==
  /\ pc[t] = "unlink"
  /\ \/ /\ sameFS /\ copy' = copy
        /\ staged' = [staged EXCEPT ![t] = "none"] /\ NoFault
     \/ /\ ~sameFS /\ staged' = staged
        /\ copy' = [copy EXCEPT ![t] = "none"] /\ NoFault
     \/ Fault /\ UNCHANGED <<staged, copy>>
  /\ Goto(t, "published")
  /\ UNCHANGED <<config, expected, dest, verdict, journal, old, romm,
                 advertised>>

RecordPublished(t) ==
  /\ pc[t] = "published"
  /\ Advance(t, HandOffState(mode), "handed")
  /\ UNCHANGED <<config, expected, dest, verdict, disk, romm, advertised>>

-----------------------------------------------------------------------------
(* Step 5 in API-only mode: RommUploader.Upload.                           *)

RecordUploading(t) ==
  /\ pc[t] = "upload"
  /\ Advance(t, HandOffState(mode), "sending")
  /\ UNCHANGED <<config, expected, dest, verdict, disk, romm, advertised>>

Outdate(n) ==
  outdated' = outdated \cup {t \in Transfers : dest[t] = n
                                            /\ verdict[t] # "none"}

\* The complete call: RomM assembles the chunks under the name, over a file
\* that is there already or into a fresh one.
RommAssembles(t) ==
  /\ library' = [library EXCEPT ![dest[t]] = staged[t]]
  /\ touched' = IF library[dest[t]] = "none" THEN touched
                ELSE touched \cup {dest[t]}
  /\ delivered' = delivered \cup {t}
  /\ Outdate(dest[t])
  /\ UNCHANGED indexed

Upload(t) ==
  /\ pc[t] = "sending" /\ staged[t] # "none"
  /\ RommAssembles(t)
  /\ Goto(t, "handed") /\ NoFault
  /\ UNCHANGED <<config, expected, dest, verdict, journal, disk, advertised>>

\* Mistake: an upload that fails is recorded as cancelled.
UploadCancels(t) ==
  /\ pc[t] = "sending"
  /\ Advance(t, "cancelled", "ended")
  /\ UNCHANGED <<config, expected, dest, verdict, disk, romm, advertised>>

\* The staged file is gone, RomM refuses, or a request fails before complete
\* reaches RomM; cancel drops the session.
UploadFails(t) ==
  /\ pc[t] = "sending"
  /\ Advance(t, "verification_conflict", "ended")
  /\ UNCHANGED <<config, expected, dest, verdict, disk, romm, advertised>>

\* RomM assembles the file and the answer to complete is lost: to Upload that
\* is an error, and its cancel comes too late.
UploadReplyLost(t) ==
  /\ pc[t] = "sending" /\ staged[t] # "none"
  /\ Fault
  /\ RommAssembles(t)
  /\ Machine!Append(t, "verification_conflict") /\ Goto(t, "ended")
  /\ UNCHANGED <<config, expected, dest, verdict, disk, advertised>>

-----------------------------------------------------------------------------
(* Waiting for RomM, and activation.                                       *)

RecordAwaiting(t) ==
  /\ pc[t] = "handed"
  /\ Advance(t, "awaiting_romm_ingestion", "await")
  /\ UNCHANGED <<config, expected, dest, verdict, disk, romm, advertised>>

\* Mistakes: the name alone decides; a match is activated at once.
ClassifiedByName(t, c, p) == "romm_matched"
ClassifiedActive(t, c, p) ==
  IF c = expected[t] /\ p # "other" THEN "source_active" ELSE "romm_unmatched"

\* classify, of a file whose identity the Bridge computed itself and the
\* platform RomM files it under: none, the expected one or another.
Platforms == {"", "expected", "other"}
Classified(t, c, p) ==
  IF c = expected[t] /\ p # "other" THEN "romm_matched" ELSE "romm_unmatched"

Decide(t, result) ==
  /\ verdict' = [verdict EXCEPT ![t] = result]
  /\ Goto(t, "settle") /\ NoFault
  /\ UNCHANGED <<config, expected, dest, journal, disk, romm, advertised>>

\* Await's Observe finds the name in RomM's listing and downloads it.  An
\* error, a name not listed and bytes the analyzer cannot place decide nothing.
Observe(t) ==
  /\ pc[t] = "await"
  /\ dest[t] \in indexed /\ library[dest[t]] # "none"
  /\ \E p \in Platforms : Decide(t, Classified(t, library[dest[t]], p))

\* Mistake: the deadline is looked at only after a sighting.
DeadlineOnceSeen(t) ==
  /\ pc[t] = "await" /\ dest[t] \in indexed
  /\ Decide(t, "ingestion_timeout")

\* The deadline passes, or the import's context ends.
Deadline(t) == pc[t] = "await" /\ Decide(t, "ingestion_timeout")

Settle(t) ==
  /\ pc[t] = "settle"
  /\ Advance(t, verdict[t],
             IF verdict[t] # "romm_matched" THEN "ended"
             ELSE IF advertises THEN "republish" ELSE "activate")
  /\ UNCHANGED <<config, expected, dest, verdict, disk, romm, advertised>>

Republish(t) ==
  /\ pc[t] = "republish"
  /\ advertised' = advertised \cup {t}
  /\ Goto(t, "activate") /\ NoFault
  /\ UNCHANGED <<config, expected, dest, verdict, journal, disk, romm>>

RepublishFails(t) ==
  /\ pc[t] = "republish"
  /\ Advance(t, "quarantined", "ended")
  /\ UNCHANGED <<config, expected, dest, verdict, disk, romm, advertised>>

Activate(t) ==
  /\ pc[t] = "activate"
  /\ Advance(t, "source_active", "ended")
  /\ UNCHANGED <<config, expected, dest, verdict, disk, romm, advertised>>

-----------------------------------------------------------------------------
(* Around the flow.                                                        *)

\* The Bridge process dies with every transfer it was running; nothing
\* resumes them after a restart.
Crash ==
  /\ Fault
  /\ pc' = [t \in Transfers |->
              IF pc[t] \in {"idle", "ended", "refused"} THEN pc[t] ELSE "dead"]
  /\ UNCHANGED <<config, expected, dest, verdict, journal, disk, romm,
                 advertised>>

\* A .part file nobody is writing has not been touched for the window.
GrowOld(t) ==
  /\ staged[t] # "none" /\ ~old[t] /\ pc[t] # "write"
  /\ old' = [old EXCEPT ![t] = TRUE]
  /\ UNCHANGED <<config, pc, expected, dest, verdict, journal, staged, copy,
                 romm, advertised, faults>>

\* Mistake: a transfer the journal still shows in flight is left alone.
CleanupSettled(t) ==
  /\ old[t] /\ staged[t] # "none" /\ state[t] \in Machine!Terminals
  /\ staged' = [staged EXCEPT ![t] = "none"]
  /\ UNCHANGED <<config, pc, expected, dest, verdict, journal, old, copy,
                 romm, advertised, faults>>

\* CleanupAbandoned, on the hourly tick.
CleanupAbandoned(t) ==
  /\ old[t] /\ staged[t] # "none"
  /\ staged' = [staged EXCEPT ![t] = "none"]
  /\ UNCHANGED <<config, pc, expected, dest, verdict, journal, old, copy,
                 romm, advertised, faults>>

\* RomM's watcher schedules a scan and lists a file of its library.
RommIndexes(n) ==
  /\ library[n] # "none" /\ n \notin indexed
  /\ indexed' = indexed \cup {n}
  /\ UNCHANGED <<config, pc, expected, dest, verdict, journal, disk, library,
                 touched, delivered, outdated, advertised, faults>>

\* Somebody else writes or removes a file of the library.
Outsider(n) ==
  /\ Fault
  /\ \E c \in (Contents \cup {"none"}) \ {library[n]} :
       library' = [library EXCEPT ![n] = c]
  /\ touched' = touched \cup {n}
  /\ Outdate(n)
  /\ UNCHANGED <<config, pc, expected, dest, verdict, journal, disk, indexed,
                 delivered, advertised>>

-----------------------------------------------------------------------------
Receive(t) ==
  \/ Start(t) \/ CannotStage(t) \/ OpenStaging(t) \/ FinishStaging(t)
  \/ StagingFails(t) \/ Verify(t) \/ Reject(t) \/ RecordVerified(t)
  \/ Lstat(t) \/ OpenCopy(t) \/ FinishCopy(t) \/ Link(t) \/ SyncDirectory(t)
  \/ Unlink(t) \/ RecordPublished(t)
  \/ RecordUploading(t) \/ Upload(t) \/ UploadFails(t) \/ UploadReplyLost(t)
  \/ RecordAwaiting(t) \/ Observe(t) \/ Deadline(t) \/ Settle(t)
  \/ Republish(t) \/ RepublishFails(t) \/ Activate(t)

Next ==
  \/ \E t \in Transfers : Receive(t) \/ GrowOld(t) \/ CleanupAbandoned(t)
  \/ \E n \in Names : RommIndexes(n) \/ Outsider(n)
  \/ Crash

Spec == Init /\ [][Next]_vars

\* A started import has its own goroutine and a context with a deadline, and
\* the cleanup ticks for as long as the process runs.  Crashes, failures and
\* outsiders are owed nothing, and neither is RomM's scan.
Fairness ==
  \A t \in Transfers :
    /\ WF_vars(pc[t] # "idle" /\ Receive(t))
    /\ WF_vars(GrowOld(t)) /\ WF_vars(CleanupAbandoned(t))

FairSpec == Spec /\ Fairness

-----------------------------------------------------------------------------
(* Properties.                                                             *)

TypeOK ==
  /\ mode \in Machine!Modes /\ sameFS \in BOOLEAN /\ advertises \in BOOLEAN
  /\ pc \in [Transfers -> Steps]
  /\ expected \in [Transfers -> Payloads] /\ dest \in [Transfers -> Names]
  /\ verdict \in [Transfers -> Results \cup {"none"}]
  /\ Machine!TypeOK
  /\ staged \in [Transfers -> Contents \cup {"none"}]
  /\ old \in [Transfers -> BOOLEAN]
  /\ copy \in [Transfers -> Contents \cup {"none"}]
  /\ library \in [Names -> Contents \cup {"none"}]
  /\ indexed \subseteq Names /\ touched \subseteq Names
  /\ advertised \subseteq Transfers /\ delivered \subseteq Transfers
  /\ outdated \subseteq Transfers
  /\ faults \in 0..MaxFaults

\* The flow never asks the journal for a move the machine does not have: no
\* outcome of a real transfer is lost to "illegal destination transition".
NeverRefused == \A t \in Transfers : pc[t] # "refused"

\* What Receive takes for recorded.  Append keeps an illegal entry out of the
\* journal, so the journal alone could not show that one was asked for.
Requested == [t \in Transfers |->
                IF pc[t] = "refused" THEN "refused" ELSE state[t]]
Requests == INSTANCE DestinationMachine
              WITH Transfers <- Transfers, state <- Requested, passed <- passed

\* The flow implements the destination state machine: over verification, both
\* hand-offs, RomM's answers, failures and crashes, what it asks its journal
\* to record is a behaviour of that machine.
ImplementsMachine == Requests!Spec

\* A name nobody else has written holds nothing or a complete payload some
\* transfer to it expected: no crash, short stream, bad copy or race leaves a
\* partial or foreign file under a final name.
LibraryIsVerified ==
  \A n \in Names \ touched :
    library[n] # "none" =>
      \E t \in delivered : dest[t] = n /\ library[n] = expected[t]

\* "Existing library files are never silently overwritten": publication
\* changes no name that holds a file, whoever put it there and whenever.
NeverOverwrites ==
  [][\A n \in Names :
       mode = "filesystem_publication" /\ library[n] # "none"
         => \/ library'[n] = library[n]
            \/ n \in touched' /\ faults' > faults]_vars

\* The journal is neither ahead of the hand-off nor behind verification: it
\* says awaiting only of a payload that was delivered, and no payload is
\* delivered before verified_in_staging is on record.  It does not say that
\* everything delivered is claimed: see CancelledIsUndelivered, and an upload
\* whose answer is lost is filed as verification_conflict.
JournalTellsTheTruth ==
  \A t \in Transfers :
    /\ {"published_to_filesystem", "awaiting_romm_ingestion"}
         \cap passed[t] # {} => t \in delivered
    /\ t \in delivered => "verified_in_staging" \in passed[t]

\* "Publication refused. Nothing reached the library" (flow.go): a transfer on
\* record as cancelled has put nothing there.
\* It does not hold: ReceivingCancelled.cfg.
CancelledIsUndelivered ==
  \A t \in Transfers : state[t] = "cancelled" => t \notin delivered

\* A source is real.  Its library holds the very payload the transfer
\* expected, until its name is written again: neither the name alone nor
\* another transfer's file uploaded under it makes a source.  And it can be
\* found: "a source advertised before the manifest names it is a source nobody
\* can find", and the manifest names only what RomM matched.
SourceIsHeld ==
  \A t \in Transfers \ outdated :
    state[t] = "source_active" => library[dest[t]] = expected[t]
SourceIsFindable ==
  \A t \in Transfers :
    /\ state[t] = "source_active" /\ advertises => t \in advertised
    /\ t \in advertised => "romm_matched" \in passed[t]
SourceIsReal == SourceIsHeld /\ SourceIsFindable

\* Where nothing fails, every import that starts reaches a state an operator
\* can read as final, whatever RomM answers and however long it takes.
EveryImportEnds ==
  \A t \in Transfers :
    pc[t] # "idle" ~> (state[t] \in Machine!Terminals \/ faults > 0)

\* "So a crash mid-import doesn't leak disk forever": every .part file goes.
StagingDrains ==
  \A t \in Transfers : staged[t] # "none" ~> staged[t] = "none"

=============================================================================
