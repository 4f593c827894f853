\* One request at a time, with failures of Kubernetes, of Flink and of the server.
SPECIFICATION Spec
CONSTANTS
  q1 = q1
  q2 = q2
  p1 = p1
  s1 = s1
  s2 = s2
  Requests = {q1}
  Pollers = {}
  Scripts = {s1, s2}
  MaxId = 3
  Ends = {"finished", "failed", "cancelled"}
  Faults = TRUE
INVARIANTS LockedIsDeployed RunningHasScript DeployedIsOnRecord
PROPERTIES OverwrittenIsKept
SYMMETRY Symmetry
\* A deleted job leaves nothing to do.
CHECK_DEADLOCK FALSE
