------------------------------- MODULE MCRelay -------------------------------
EXTENDS Relay, TLC

\* Safety only: connections are alike, and so are grants.
RelaySymmetry == Permutations(Conns) \cup Permutations(Grants)

=============================================================================
