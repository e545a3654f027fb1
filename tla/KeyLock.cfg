SPECIFICATION LockSpec
CONSTANTS
  Callers = {c1, c2, c3}
  LockKeys = {k1, k2}
  Entries = {e1, e2, e3, e4, e5}
  NoEntry = NoEntry
  Nobody = Nobody
INVARIANTS
  MutualExclusion
PROPERTIES
  ImplementsKeyLock
