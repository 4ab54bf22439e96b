CONSTANTS
  f = f
  g = g
  fz = fz
  gz = gz
  stdout = stdout
  Names = {f, g, fz, gz, stdout}
  Paths = {f, g}
  Existing = {f, g, fz}
  OutName <- OutNames
  Options <- AllOptions
  Stdin = stdin
  Stdout = stdout
  NoName = noname
  StdoutLast = TRUE
  MaxFiles = 3
SPECIFICATION Spec
INVARIANTS NeverLost NothingPartLeft
PROPERTIES LosesOnlyAsked
