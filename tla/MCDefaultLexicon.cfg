SPECIFICATION Spec
CONSTANTS
  Threads = {t1, t2}
  FileCount = 2
  MaxEvents = 2
  MaxStorages = 4
  Nobody = Nobody
  Null = Null
  Gone = Gone
  Failed = Failed
SYMMETRY ThreadSymmetry
INVARIANTS
  LookupIsWhole
  CalmLookupsAreCurrent
  OnlyRacesLeaveItStale
