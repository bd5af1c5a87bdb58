SPECIFICATION FairNights
CONSTANTS
  a = a
  b = b
  c = c
  p = p
  q = q
  e = e
  NoKey = NoKey
  Obs = {a, b}
  Keys <- NightKeys
  Similarity <- Scores
  Confidence <- Confidences
  Created <- CreatedRank
  Callers = {}
  Editors = {}
  LinkThreshold = 75
  DetectLimit = 2
  RescueLimit = 2
  ListLimit = 1
  MaxFaults = 1
  Misreads = FALSE
  Parts = {"one", "two"}
INVARIANTS
  DaemonAcceptanceBacked
  OrphanExitComplete
  ArchivedOnlyIfExhausted
  AutomationInBand
  RescueBudget
PROPERTY
  AbsorbableDrained
