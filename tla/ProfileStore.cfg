\* Documents of each fate, two failed saves, two crashes.
CONSTANTS
  None = None
  NegativeAsSize = 99
  good1 = good1
  good2 = good2
  malformed = malformed
  refused = refused
  fatal = fatal
  thrown = thrown
  Profiles <- MCProfiles
  Fate <- MCFate
  Default = Default
  NoProfile = NoProfile
  MaxFailures = 2
  MaxCrashes = 2
SPECIFICATION FairStoreSpec
INVARIANTS
  LatestIsOnDisk
  DiskIsReadable
PROPERTIES
  RestartsComeUp
