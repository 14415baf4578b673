SPECIFICATION Spec
CONSTANTS
  d = d
  e = e
  m = m
  run = run
  odd = odd
  text = text
  list = list
  n1 = n1
  n2 = n2
  Names = {n1, n2}
  SkillSources <- MCSkillSources
  CommandSources <- MCCommandSources
  Absent = Absent
  OpenAI = OpenAI
  Unmapped = {list, text}
  Tokens = {run}
SYMMETRY NameSymmetry
INVARIANTS
  OneCopyEach
  ServedAsAsked
  ScriptsWhereFound
