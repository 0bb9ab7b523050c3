SPECIFICATION Spec
CONSTANTS
  v1 = v1 v2 = v2 u1 = u1 u2 = u2 a1 = a1
  Sessions = {v1}
  Uploads = {u1, u2}
  Admins = {a1}
  Events = {v1}
  Calls <- MCCalls
  SessionOf <- MCSessionOf
  Included = 1
  Amounts = {1}
  Limits = {1, 2}
  MaxMonth = 1
CHECK_DEADLOCK FALSE
INVARIANTS VoiceTypeOK NeverOverdrawn BackedByLedger BookedOnce SuccessIsBooked ExpiredNotBilled
