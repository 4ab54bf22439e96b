CONSTANTS
  f = f
  g = g
  fz = fz
  gz = gz
  stdout = stdout
  Names = {f, g, fz, gz, stdout}
  Paths = {f, g}
  Existing = {f, g, fz}
  OutName <- OutNames
  Options <- AllOptions
  Stdin = stdin
  Stdout = stdout
  NoName = noname
  StdoutLast = FALSE
  MaxFiles = 3
SPECIFICATION Spec
PROPERTIES LosesOnlyAsked
