SPECIFICATION Spec
CONSTANTS
  plan = plan
  build = build
  Unnamed = Unnamed
  Assignments = {"A=1"}
  Redirects = {"2>&1"}
  Operators = {">"}
  Options = {"--", "-z", "-k", "-n", "-u", "-S", "-v", "--signal=KILL"}
  Stems <- MCStems
  Paths <- MCPaths
  SystemPaths = {"/bin/rm", "/usr/bin/timeout"}
  Agents <- MCAgents
  Lines <- MCLines
  Grants <- MCGrants
  MaxGrants = 1
INVARIANTS
  DenyReachesInside
  AllowIsCarried
  NothingRunsUnread
