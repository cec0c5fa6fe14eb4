SPECIFICATION Spec
CONSTANTS
  Glyphs <- MCGlyphs
  InputChars = {"n"}
  LongVowel = "-"
  SmallKana = {"tsu"}
  Marks = {"!"}
  Dictionaries = {"plain", "strict"}
  Conversion <- MCConversion
  Lexicon <- MCLexicon
  Predicted <- MCPredicted
  MaxText = 3
  MaxList = 2
  NotBuilt = NotBuilt
INVARIANTS
  IndicesInside
  ConversionCoherent
  SegmentsCoverReading
  SelectionShown
  DisplayCoherent
PROPERTIES
  ConversionCommitsWhatIsShown
  EnterCommitsWhatIsShown
  LearnsWhatItCommits
  CancelRestoresReading
  OnlyMergeOutdatesCandidates
  KeepsItsPromise
