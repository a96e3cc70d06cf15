SPECIFICATION Spec
CONSTANTS
  w1 = w1
  w2 = w2
  r1 = r1
  s1 = s1
  p1 = p1
  p2 = p2
  NoVersion = NoVersion
  Writers <- MCWriters
  RawKeys <- MCRawKeys
  FeatureKeys = {}
  ScoreKeys <- MCScoreKeys
  Payloads <- MCPayloads
  Versions <- MCWriters
  VersionOf <- MCVersionOf
  MaxNow = 2
  Ahead = 1
  MaxRows = 4
  MaxHistory = 1
SYMMETRY MCSymmetry
INVARIANT CorrectionsInserted
