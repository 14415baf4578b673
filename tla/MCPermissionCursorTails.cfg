SPECIFICATION Spec
CONSTANTS
  committed = committed
  local = local
  Wrappers <- MCWrappers
  Options <- MCOptions
  Assignments <- MCAssignments
  NoReason = none
  Rules <- MCRules
  Fragments = {committed}
  Combined = {}
  MaxRules = 2
  Commands <- MCCommands
  Interpreters <- MCInterpreters
  ClaudePeeled <- MCClaudePeeled
  UnwrapPeeled <- MCUnwrapPeeled
INVARIANT CursorWithholdsForTails
