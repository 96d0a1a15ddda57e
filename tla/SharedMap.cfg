SPECIFICATION FairSpec
CONSTANTS
  Thread = {t1, t2, t3}
  Key = {k}
  Val = {v1, v2}
  Absent = Absent
  Default = Default
  MaxCalls = 4
INVARIANTS
  TypeOK
  EntryHeld
PROPERTIES
  ImplementsAtomicMap
  EveryCallReturns
CHECK_DEADLOCK FALSE
