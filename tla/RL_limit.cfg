SPECIFICATION Spec
CONSTANTS
  Requests = {r1, r2, r3, r4}
  Buckets = {challenge, poll}
  Adjustable = {challenge}
  Callers = {ip}
  None = None
  Limits <- MCLimits
  Default <- MCDefault
  MaxTime = 3
  MaxEpochs = 1
SYMMETRY Symmetry
INVARIANTS TypeOK RefusedIsEarned
PROPERTIES SoloWithinLimit
CHECK_DEADLOCK FALSE
