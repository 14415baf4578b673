SPECIFICATION Spec
CONSTANTS
  settings = settings
  config = config
  allow = allow
  mode = mode
  plugins = plugins
  g1 = g1
  g2 = g2
  e = e
  t = t
  v1 = v1
  v2 = v2
  w = w
  Surfaces = {settings, config}
  Pointers = {allow, mode, plugins}
  SurfaceOf <- MCSurfaceOf
  Lists = {allow, plugins}
  Items = {g1, g2, e, t}
  Scalars = {v1, v2, w}
  ToolItems = {t}
  ToolScalars = {w, v1}
  ToolPointers = {allow, mode, plugins}
  Sources <- MCSources
  Interferes = FALSE
  Missing = Missing
INVARIANTS
  TypeOK
  ForeignFirst
  DoneMeansSynced
  KilledRunRepeats
  NothingForgotten
  OwnOutputAccepted
PROPERTY ToolWorkKept
