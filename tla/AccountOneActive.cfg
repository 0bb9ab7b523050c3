\* The rule of the document for all sessions of the account.
SPECIFICATION SafetySpec
CONSTANTS
  Requests = {r1, r2, r3}
  First = first
  Grants = {g}
  None = none
SYMMETRY Symmetry
INVARIANTS OneActiveSession
CHECK_DEADLOCK FALSE
