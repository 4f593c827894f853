SPECIFICATION Spec
CONSTANTS
  d1 = d1
  d2 = d2
  d3 = d3
  w1 = w1
  w2 = w2
  e1 = e1
  e2 = e2
  v1 = v1
  v2 = v2
  kafka = kafka
  p1 = p1
  j1 = j1
  c1 = c1
  c2 = c2
  Ids = {d1, d2, d3}
  Workspaces = {w1, w2}
  Global = Global
  Engines = {e1, e2}
  Jdbc = {v1, v2}
  Plain = {kafka}
  Profiles = {p1}
  Overrides <- MCOverrides
  JobPlace <- MCJobPlace
  Place <- MCPlace
  Home <- MCHome
  Env <- MCEnv
  Bodies <- MCBodies
  Calls = {c1, c2}
  MaxCalls = 3
  Faults = TRUE
  None = None
  Gone = Gone
  Blank = Blank
SYMMETRY MCSymmetry
INVARIANTS MirrorIsCurrent ChoicesAreOwn
PROPERTIES OthersAreUntouched
CHECK_DEADLOCK FALSE
