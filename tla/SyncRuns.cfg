\* Two callers, two runs of one task that users edit and delete; the process may be killed.
SPECIFICATION SSpec
CONSTANTS
  Tasks = {k1}
  Callers = {c1, c2}
  Records = {r1, r2}
  MaxRow = 1
  RowLimit = 1
  Editing = TRUE
  Crashes = TRUE
  Reloaders = {q1, q2}
INVARIANTS OneRunPerTask 
PROPERTIES SuccessMeansDelivered ClaimsAreReturned
