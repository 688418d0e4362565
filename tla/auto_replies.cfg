SPECIFICATION FairSpec
CONSTANTS
  i1 = i1
  i2 = i2
  t1 = t1
  Inbound = {i1, i2}
  Threads = {t1}
  ThreadOf <- OneThread
  None = None
  Attempts = 2
  MaxStalled = 1
  LostAnswers = FALSE
INVARIANTS
  AutoReplyInv
  OneAutoReplyPerThread
PROPERTIES
  InboxSettles
CHECK_DEADLOCK FALSE
