\* Three concurrent requests, one recovery; no symmetry because of RequestsEnd.
SPECIFICATION Spec
CONSTANTS
  Requests = {r1, r2, r3}
  First = first
  Grants = {g}
  None = none
INVARIANTS TypeOK OneInteractive RecoveryEndsSessions LockEndsWithTransaction
PROPERTIES OnlyASuccessorDisplaces SlotSpec RequestsEnd
CHECK_DEADLOCK FALSE
