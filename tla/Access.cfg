SPECIFICATION Spec
CONSTANTS
  boss = boss
  ann = ann
  c1 = c1
  c2 = c2
  bob = bob
  Users = {boss, ann, bob}
  Builtin = boss
  Custom = {"clerk"}
  Grants <- MCGrants
  Offered <- MCOffered
  Workspaces = {"infras", "lab"}
  Default = "infras"
  Calls = {c1, c2}
  MaxCalls = 3
  None = None
  Gone = Gone
INVARIANTS AccountsInOrder DecisionsAgree
PROPERTIES RisesByAuthority
SYMMETRY Symmetry
CHECK_DEADLOCK FALSE
