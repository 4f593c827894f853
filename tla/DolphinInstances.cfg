\* A request, a synchronisation, a page, two process instances of one Dolphin or of
\* two, a failure; one way to end.
SPECIFICATION FairSpec
CONSTANTS
  Workflows = {1, 2}
  Server <- MCServer
  Platform = "platform"
  Broken = {2}
  Requests = {q1}
  Syncs = {s1}
  Viewers = {v1}
  Ended = {"failed"}
  Window = 2
  PatchLimit = 2
  PageLimit = 1
  Begins <- MCBegins
  MaxRuns = 2
  MaxRows = 4
  MaxRequests = 1
  MaxFailures = 1
  None = None
INVARIANTS OneRowPerRun EndIsReal
PROPERTIES EveryRunIsListed EndIsShown
