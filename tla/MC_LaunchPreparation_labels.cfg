\* Labels that list files and override the configuration.
SPECIFICATION Spec
CONSTANTS
  Words <- MCWords
  Listings <- MCListings
  Present <- MCPresent
  MaxRetry = 2
INVARIANTS
  TypeOK
  LaunchedAsEdited
  NoFileLost
  StrayIsReported
