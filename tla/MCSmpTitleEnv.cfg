SPECIFICATION TitleSpec
CONSTANTS
  MaxArgc = 2
  MaxEnv = 2
  MaxChars = 1
INVARIANT EnvKept
