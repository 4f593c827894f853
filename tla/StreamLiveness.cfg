\* A user, an open page, and an operator that acts.
SPECIFICATION FairSpec
CONSTANTS
  q1 = q1
  q2 = q2
  p1 = p1
  s1 = s1
  s2 = s2
  Requests = {q1}
  Pollers = {p1}
  Scripts = {s1}
  MaxId = 1
  Ends = {}
  Faults = TRUE
PROPERTIES SuspendedIsReported RequestsEnd
\* A deleted job leaves nothing to do.
CHECK_DEADLOCK FALSE
