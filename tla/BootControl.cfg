SPECIFICATION FairSpec
CONSTANTS
  Image = {old, new}
  NoImage = NoImage
  Timeout = 2
INVARIANTS
  OnlyVerifiedRuns
  ArgumentServesOnce
  WaitsForUser
PROPERTIES
  NotTakenAway
  TimeoutRunsSaved
  Settles
  QuietBoot
