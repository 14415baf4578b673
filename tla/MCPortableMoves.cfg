SPECIFICATION FairSpec
CONSTANTS
  rule = rule
  notes = notes
  b1 = b1
  b2 = b2
  u = u
  Paths = {rule, notes}
  Trees = {}
  Slots = {}
  Body = Body
  Stray = Stray
  Bytes = {b1, b2}
  UserBytes = {u}
  Temp = Temp
  Groups = {"rules", "raw"}
  PublishOrder <- MCPublishOrder
  Plans <- MCMovePlans
  UserNodes <- MCOtherNodes
  Interferes = TRUE
  Absent = Absent
  Link = Link
  Other = Other
  NoPath = NoPath
PROPERTY Converges
