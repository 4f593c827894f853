\* One request at a time, no faults: the whole contract holds.
SPECIFICATION Spec
CONSTANTS
  api = api
  node = node
  job = job
  wf = wf
  Nil = Nil
  Users = {dev, boss}
  Threads = {t1}
  Tickets = {k1, k2}
  Resources = {api, job}
  Kind <- MCKind
  LockOnPublish = TRUE
  Faults = FALSE
  MaxVersion = 2
  MaxRuns = 2
PROPERTY KeepsContract
SYMMETRY Symmetry
