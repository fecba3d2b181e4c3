CONSTANTS
  DottedWords <- MCDotted
  RegionWords <- MCRegions
  CapitalWords <- MCCapital
  LowerWord <- MCLower
  SystemCandidates <- MCCandidates
  GitPrefix = "etc"
  Workers = {w1, w2}
  Starts <- MCStarts
  Named <- MCNamed
  Contents <- MCContents
  EditedIn <- MCEditedIn
  MaxFailures = 1
  Cleaned <- MCCleaned
  Physical <- MCPhysical
SPECIFICATION Spec
INVARIANTS TypeOK WaitsForItsAnswer AsGitReads OneAnswer OneSpawnAnswers ListedRoot OnePlacePerRepository
