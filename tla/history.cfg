SPECIFICATION Spec
CONSTANTS
  SlotCount = 3
  MaxRows = 3
  MaxDue = 1
  Pours = 4
  Faults = 3
INVARIANT Retained
INVARIANT ListsNewest
INVARIANT StoredIsPoured
INVARIANT IdsUnique
INVARIANT OnePourExported
PROPERTY RecordPromise
\* Every pour of the bound is over, or the partition was not found.
CHECK_DEADLOCK FALSE
