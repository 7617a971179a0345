SPECIFICATION Spec
CONSTANTS
  modern = modern
  legacy = legacy
  old = old
  symbol = symbol
  NULL = NULL
  Threads = {t1, t2}
  Libs = {modern, legacy, old, symbol}
  Addon <- Addons
  FfiLibs = {modern}
  MaxDepth = 2
  MaxAddons = 2
  MaxOpens = 2
SYMMETRY Symmetric
INVARIANT NothingPending
