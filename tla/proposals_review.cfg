SPECIFICATION PartSpec
CONSTANTS
  a = a
  b = b
  c = c
  p = p
  q = q
  e = e
  NoKey = NoKey
  Obs = {a, b}
  Keys <- ReviewKeys
  Similarity <- Scores
  Confidence <- Confidences
  Created <- CreatedRank
  Callers = {p}
  Editors = {}
  LinkThreshold = 75
  DetectLimit = 1
  RescueLimit = 1
  ListLimit = 1
  MaxFaults = 0
  Misreads = TRUE
  Parts = {"reviewed", "deleted"}
PROPERTY
  DecisionsSurvive
