SPECIFICATION FairSpec
CONSTANTS
  Repos <- TwoRepos
  Urls <- TwoUrls
  Patches <- SomePatches
  Networks <- AllNetworks
  MaxRev = 3
INVARIANTS OfflineSuffices GoodUrlSuffices
PROPERTIES ImplementsSourceTree FetchEnds
