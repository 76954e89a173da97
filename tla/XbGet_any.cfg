SPECIFICATION FairSpec
CONSTANTS
  Files <- TheFiles
  Root = 9
  Foreign = 0
  Archives <- TheArchives
  NameMax = 6
INVARIANTS VendorVerified HonestUrlEnough VendorObtainable
PROPERTIES ImplementsVerifiedFile CacheKept RequestEnds
