SPECIFICATION FairSpec
CONSTANTS
  Hosts = {h1}
  MaxStarts = 3
  Free = Free
INVARIANTS
  SessionHasWorker
  UnloadSafe
PROPERTY
  SessionIsServed
