\* One workflow; the request, the job, the executor and a page that goes stale.
SPECIFICATION RFairSpec
CONSTANTS
  a = a
  b = b
  c = c
  None = None
  Executor = Executor
  Workflows = {w1}
  Nodes = {a, b, c}
  Graphs <- MCGraphs
  Requests = {q1}
  Pages = {u1}
  Flaky = {b}
  Limit = 1
  MaxInstances = 2
  MaxRequests = 2
  Restarts = TRUE
INVARIANTS OneRunner TerminalIsSettled
PROPERTIES GraphIsFollowed  
\* Nothing happens when the bounds are reached.
CHECK_DEADLOCK FALSE
