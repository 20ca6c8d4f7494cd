--------------------------- MODULE MCPreservation ---------------------------
(***************************************************************************)
(* Bounds for TLC.  Bridges, domains and (all being expected) files are    *)
(* interchangeable.                                                        *)
(***************************************************************************)
EXTENDS Preservation, TLC

Symmetry == Permutations(Aliases) \cup Permutations(Domains) \cup Permutations(Files)
=============================================================================
