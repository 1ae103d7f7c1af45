\* Two create_order calls with one key at a time, two gateway references, one lease.
SPECIFICATION FairSpec
CONSTANTS
  Request = {q1, q2}
  Ref = {g1, g2}
  NoRef = NoRef
  MaxPersists = 3
INVARIANTS
  OneCallAtATime
  OfferedRefIsOnFile
  SettledOnce
PROPERTIES
  CaptureIsAnswered
