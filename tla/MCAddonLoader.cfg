SPECIFICATION Spec
CONSTANTS
  modern = modern
  legacy = legacy
  old = old
  symbol = symbol
  NULL = NULL
  Threads = {t1, t2}
  Libs = {modern, legacy, old, symbol}
  Addon <- Addons
  FfiLibs = {symbol}
  MaxDepth = 2
  MaxAddons = 2
  MaxOpens = 2
SYMMETRY Symmetric
INVARIANTS CountsExact ModulesAlive SelfWaitsBySymbol
\* A thread may wait for itself (SelfWaitsBySymbol).
CHECK_DEADLOCK FALSE
