\* Two threads and one page, a workflow published to one of two engines.
SPECIFICATION Spec
CONSTANTS
  w1 = w1
  w2 = w2
  e1 = e1
  e2 = e2
  None = None
  Absent = Absent
  Deleted = Deleted
  Workflows = {w1}
  Engines = {e1, e2}
  EngineOf <- MCEngineOf
  a = a
  b = b
  x = x
  Scripts = {a, b, x}
  ScriptsOf <- MCScriptsOf
  Graphs <- MCGraphs
  Names = {n1, n2}
  Crons = {c1}
  Requests = {q1, q2}
  Pages = {u1}
  MaxRequests = 4
INVARIANTS FlagIsHonest OwnEngine  DefinitionsCanRun OrphansAreExplained
SYMMETRY Symmetry
\* The budget of requests ends.
CHECK_DEADLOCK FALSE
