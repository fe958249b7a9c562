CONSTANTS
  null = null  garbage = garbage
  NULL <- null
  Garbage <- garbage
  MaxCmds = 3
  CircleResults = {"ok"}
  Lines <- UnterminatedLines
SPECIFICATION Spec
INVARIANT MemorySafe
