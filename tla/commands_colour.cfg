\* Newline-terminated lines, one of them with the colour "#12345g".
CONSTANTS
  null = null  garbage = garbage
  NULL <- null
  Garbage <- garbage
  MaxCmds = 2
  CircleResults = {"ok"}
  Lines <- ColourLines
SPECIFICATION Spec
INVARIANT DispatchAsDocumented
