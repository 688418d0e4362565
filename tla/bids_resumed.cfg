SPECIFICATION Spec
CONSTANTS
  b1 = b1
  b2 = b2
  p1 = p1
  p2 = p2
  w1 = w1
  w2 = w2
  None = None
  Bids = {b1, b2}
  Projects = {p1, p2}
  ProjectOf <- TwoProjects
  AutoBids = {b2}
  Workers = {w1}
  Limit <- Tight
  Attempts = 2
  MaxStalled = 0
  MaxWords <- EditFirst
  Pausing = TRUE
  LoseAdds = FALSE
  LostAnswers = FALSE
INVARIANT ResumeRequeues
CHECK_DEADLOCK FALSE
