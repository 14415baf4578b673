SPECIFICATION Spec
CONSTANTS
  committed = committed
  local = local
  Wrappers <- MCWrappers
  Options <- MCOptions
  Assignments <- MCAssignments
  NoReason = none
  Rules <- MCRules
  Fragments = {committed, local}
  Combined <- MCCombined
  MaxRules = 3
  Commands <- MCCommands
  Interpreters <- MCInterpreters
  ClaudePeeled <- MCClaudePeeled
  UnwrapPeeled <- MCUnwrapPeeled
SYMMETRY FragmentSymmetry
INVARIANTS
  RejectionsAreReal
  LoadedRulesDecide
  OpenCodeKeepsPolicy
  ClaudeKeepsPolicy
  CodexKeepsGuards
  CursorWithholds
