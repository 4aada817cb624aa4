SPECIFICATION FairSpec
CONSTANTS
  Urls <- MCUrls
  Home <- MCHome
  LinkLists <- MCLinkLists
  Seeds <- MCSeeds
  Probes <- MCProbes
  EndsAt <- MCEndsAt
  MaxPerKind = 2
  MaxTotal = 5
  PoolSize = 2
INVARIANT
  DenialIsRecognised
