\* Two platforms and one the Bridge does not know; pages of two records.
SPECIFICATION Spec
CONSTANTS
  AdapterOrder <- MCAdapterOrder
  PlatformOf <- MCPlatformOf
  Claims <- MCClaims
  Canonicals <- MCCanonicals
  NoDigest = NoDigest
  RegionOrder <- MCRegionOrder
  ExcludedFlags <- MCExcludedFlags
  Articles <- MCArticles
  Platforms <- MCPlatforms
  Records <- MCRecords
  Listings <- MCListings
  Catalogues <- MCCatalogues
  NoCatalogue = NoCatalogue
  Policies <- MCPolicies
  NotPublished = NotPublished
  PageSize = 2
  MaxEdits = 1
  MaxUploads = 1
  MaxFaults = 1
INVARIANTS StillLibraryIsSeenWhole OneGameOneRom
PROPERTIES OnlyVerifiedIsHeld DeltaTellsTheWhole
