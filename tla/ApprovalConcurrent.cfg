\* Two overlapping requests that may die between their commits.
SPECIFICATION Spec
CONSTANTS
  api = api
  node = node
  job = job
  wf = wf
  Nil = Nil
  Users = {dev, boss}
  Threads = {t1, t2}
  Tickets = {k1}
  Resources = {api, wf}
  Kind <- MCKind
  LockOnPublish = TRUE
  Faults = TRUE
  MaxVersion = 1
  MaxRuns = 2
INVARIANTS ApprovedWasExecuted DecidedWithAuthority
PROPERTY ReleasesAreControlled
SYMMETRY Symmetry
