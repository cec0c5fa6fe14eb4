SPECIFICATION Spec
CONSTANTS
  TopPredictionCount = 2
  MaxScore = 4000
  CommitScore = 1000
  MaxContextCount = 5
  ContextBoostStep = 160
  MaxContextBoost = 640
  MaxInt = 5300
  ExactLimit = 4
  MaxSegmentLength = 3
  MaxCommits = 3
  MaxBlocked = 1
  DefaultEntries <- MCDefaultEntries
  KanaToRomaji <- MCKanaToRomaji
  Readings <- MCReadings
  Texts <- MCTexts
  StartFiles <- MCStartFiles
INVARIANTS
  PredictionsAreBest
  OnlySpellingsSurviveBlocking
  SegmentationIsBest
PROPERTIES
  CommitNeverDemotes
