SPECIFICATION Spec
CONSTANTS
  Table <- MCTable
  Lower <- MCLower
  Vowels = {"a", "i", "u", "e", "o"}
  N = "n"
  Y = "y"
  Apostrophe = "'"
  SmallTsu = "tsu_"
  Hatsuon = "NN"
  Glyphs <- MCGlyphs
  Conversion <- MCConversion
  Keys = {"k", "y", "a", "n", "'", "K"}
  Digits = {}
  MaxText = 4
INVARIANTS
  NothingTypedIsLost
PROPERTY
  ConfirmedIsStable
