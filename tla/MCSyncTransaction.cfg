SPECIFICATION Spec
CONSTANTS
  a = a
  b = b
  settings = settings
  f = f
  g = g
  old = old
  new = new
  allow = allow
  deny = deny
  Runs = {a, b}
  Files = {f, g}
  Contents = {old, new}
  Edits = {edit}
  Absent = Absent
  Surfaces = {settings}
  Entries = {allow, deny}
  ToolEntries = {tool}
  Sources <- MCSources
  MaxChanges = 2
CHECK_DEADLOCK FALSE
SYMMETRY Processes
INVARIANTS
  OverlapSettles
PROPERTY KeepsCustody
