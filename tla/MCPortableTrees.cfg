SPECIFICATION Spec
CONSTANTS
  rule = rule
  skill = skill
  main = main
  extra = extra
  b1 = b1
  b2 = b2
  u = u
  Paths = {rule, skill}
  Trees = {skill}
  Slots = {main, extra}
  Body = Body
  Stray = Stray
  Bytes = {b1, b2}
  UserBytes = {u}
  Temp = Temp
  Groups = {"rules", "skills"}
  PublishOrder <- MCPublishOrder
  Plans <- MCPlans
  UserNodes <- MCUserNodes
  Interferes = FALSE
  Absent = Absent
  Link = Link
  Other = Other
  NoPath = NoPath
INVARIANTS
  ManifestVouches
  DoneMeansSynced
  KilledRunRepeats
  NothingForgotten
  OwnOutputAccepted
PROPERTIES
  UserWorkKept
