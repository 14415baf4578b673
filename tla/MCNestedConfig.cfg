SPECIFICATION Spec
CONSTANTS
  servers = servers
  s = s
  url = url
  env = env
  hdr = hdr
  own = own
  args = args
  A = A
  B = B
  u1 = u1
  u2 = u2
  a = a
  b = b
  h = h
  w = w
  i = i
  j = j
  Table = Table
  Leaves <- MCLeaves
  ListLeaves <- MCListLeaves
  Names <- MCNames
  Root = servers
  Sources <- MCSources
  ToolNodes <- MCToolNodes
INVARIANTS
  TypeOK
  PlanHolds
  DoneMeansSynced
  KilledRunRepeats
  NothingForgotten
  OrderIrrelevant
  DisabledKeepsEntry
PROPERTY ToolWorkKept
