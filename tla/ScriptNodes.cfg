\* A developer and the owner, an administrator; two overlapping requests.
SPECIFICATION Spec
CONSTANTS
  ann = ann
  eve = eve
  t1 = t1
  t2 = t2
  c1 = c1
  c2 = c2
  Users = {ann, eve}
  Admins = {eve}
  Owner = eve
  Texts = {t1, t2}
  Length = 2
  Sources = {"mysql", "postgresql"}
  LockOnPublish = TRUE
  Calls = {c1, c2}
  MaxCalls = 4
  Faults = TRUE
  None = None
INVARIANT RunsAreTold
PROPERTIES LockedIsFrozen LockIsRespected
SYMMETRY Symmetry
\* The requests are bounded.
CHECK_DEADLOCK FALSE
