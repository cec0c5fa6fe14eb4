SPECIFICATION Spec
CONSTANTS
  Glyphs <- MCGlyphs
  InputChars = {"n"}
  LongVowel = "-"
  SmallKana = {"tsu"}
  Marks = {"!"}
  Dictionaries = {"plain", "strict"}
  Conversion <- MCConversion
  Lexicon <- MCLexicon
  Predicted <- MCPredicted
  MaxText = 3
  MaxList = 2
  NotBuilt = NotBuilt
INVARIANT
  FollowingCandidatesFollowContext
