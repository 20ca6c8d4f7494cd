------------------------ MODULE MCInventoryPublishing ------------------------
EXTENDS InventoryPublishing, TLC

\* Every property is about safety, and no action tells two calls apart.
PublishingSymmetry ==
  Permutations(Calls) \cup Permutations(Swarms) \cup Permutations(Files)

=============================================================================
