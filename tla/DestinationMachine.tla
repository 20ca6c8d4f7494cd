------------------------- MODULE DestinationMachine -------------------------
(***************************************************************************)
(* The receiving-side destination state machine of protocol/destination.go *)
(* and the promise of a Journal: one transfer at a time makes a legal move *)
(* and its history only grows.  ReceivingFlow is shown to implement it,    *)
(* without counting on a journal that refuses what is not legal.           *)
(***************************************************************************)
CONSTANT Transfers

VARIABLES
  state,   \* the state Journal.Current reports; "none" before the first
  passed   \* the states in Journal.History

Modes == {"api_only", "filesystem_publication"}
Reviews == {"verification_conflict", "romm_unmatched", "ingestion_timeout",
            "quarantined"}
Terminals == Reviews \cup {"cancelled", "source_active"}
InFlight == {"receiving", "verified_in_staging", "uploading_to_romm",
             "published_to_filesystem", "awaiting_romm_ingestion",
             "romm_matched"}
States == Terminals \cup InFlight

-----------------------------------------------------------------------------
transitions(s) ==
  CASE s = "receiving" -> {"verified_in_staging", "verification_conflict",
                           "cancelled"}
    [] s = "verified_in_staging" -> {"uploading_to_romm",
                                     "published_to_filesystem", "cancelled"}
    [] s = "uploading_to_romm" -> {"awaiting_romm_ingestion",
                                   "verification_conflict"}
    [] s = "published_to_filesystem" -> {"awaiting_romm_ingestion"}
    [] s = "awaiting_romm_ingestion" -> {"romm_matched", "romm_unmatched",
                                         "ingestion_timeout"}
    [] s = "romm_matched" -> {"source_active"}
    [] OTHER -> {}

quarantinableFrom == InFlight \cup {"source_active"}

CanTransition(from, to) ==
  IF to = "quarantined" THEN from \in quarantinableFrom
  ELSE to \in transitions(from)

HandOffState(mode) ==
  IF mode = "api_only" THEN "uploading_to_romm" ELSE "published_to_filesystem"

\* What Append accepts: a legal move, or "receiving" as the first entry.
Appendable(from, to) ==
  IF from = "none" THEN to = "receiving" ELSE CanTransition(from, to)

Append(t, to) ==
  /\ Appendable(state[t], to)
  /\ state' = [state EXCEPT ![t] = to]
  /\ passed' = [passed EXCEPT ![t] = @ \cup {to}]

Init ==
  /\ state = [t \in Transfers |-> "none"]
  /\ passed = [t \in Transfers |-> {}]

Next == \E t \in Transfers, to \in States : Append(t, to)

vars == <<state, passed>>
Spec == Init /\ [][Next]_vars

-----------------------------------------------------------------------------
(* Properties.                                                             *)

TypeOK ==
  /\ state \in [Transfers -> States \cup {"none"}]
  /\ passed \in [Transfers -> SUBSET States]

HandOffs == {"uploading_to_romm", "published_to_filesystem"}

\* "A file on disk is not a Swarm source until it reaches source_active", and
\* it gets there only through verification, a hand-off and a match.
SourceEarnedIt ==
  \A t \in Transfers : state[t] = "source_active" =>
    /\ {"verified_in_staging", "awaiting_romm_ingestion", "romm_matched"}
         \subseteq passed[t]
    /\ passed[t] \cap HandOffs # {}

\* Once a payload has been handed off, "cancel" is a lie: such a transfer
\* ends anywhere but in cancelled.
HandedOffIsNotCancelled ==
  \A t \in Transfers :
    state[t] = "cancelled" => passed[t] \cap HandOffs = {}

\* Exactly one destination-mode flow: no transfer is both uploaded and
\* published.
OneHandOff == \A t \in Transfers : ~(HandOffs \subseteq passed[t])

=============================================================================
