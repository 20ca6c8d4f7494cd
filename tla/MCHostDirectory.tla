--------------------------- MODULE MCHostDirectory ---------------------------
EXTENDS HostDirectory, TLC

\* Every property is about safety, and no action tells two ids apart.
DirectorySymmetry ==
  Permutations(Calls) \cup Permutations(Bridges) \cup Permutations(Invitations)

=============================================================================
