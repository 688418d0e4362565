SPECIFICATION FairSpec
CONSTANTS
  m1 = m1
  m2 = m2
  t1 = t1
  Replies = {m1}
  Threads = {t1}
  ThreadOf <- OneReply
  Client = Client
  Redacted = Redacted
  Attempts = 2
  MaxStalled = 0
  MaxWords <- Edited
  MaxInbound = 1
  Retention = TRUE
  Polling = TRUE
  Faults = TRUE
INVARIANTS OutboundInv PostedWordsWereApproved
PROPERTIES SendEnds
CHECK_DEADLOCK FALSE
