SPECIFICATION ApiSpec
CONSTANTS
  Apis = {a}
  Apps = {p}
  Wizards = {a}
  Sources = {my, pg}
  Timed = {my}
  Configs <- MCConfigs
  my = my
  pg = pg
  plain = plain
  u = u
  Args = {u}
  masked = masked
  Invocations = {get, post}
  Posts = {post}
  Limits <- MCLimits
  AppLimit <- MCAppLimit
  DefaultLimit = 2
  Window = 2
  Longest = 1
  Patience = 1
  MaxChanges = 4
  Free = Free
  NoValue = NoValue
INVARIANTS AnswersCatchUp WithdrawnIsSilent
PROPERTY LoopComesBack
CHECK_DEADLOCK FALSE
