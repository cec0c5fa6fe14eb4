SPECIFICATION Spec
CONSTANTS
  Words = {a}
  Entries = {x, y}
  NoWord = NoWord
  Owner = owner
  Blockers = {owner, other}
  MaxCommits = 1
  MaxDepth = 0
  Missing = Missing
  Corrupt = Corrupt
  Nothing = Nothing
INVARIANT
  SavedIsOnDisk
PROPERTY
  BlockedStaysBlocked
