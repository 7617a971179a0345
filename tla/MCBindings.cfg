SPECIFICATION Spec
CONSTANTS
  main = main
  worker = worker
  fs = fs
  ffi = ffi
  linked_fs = linked_fs
  linked_ffi = linked_ffi
  extra_fs = extra_fs
  None = None
  Environments = {main, worker}
  Parent <- MCParent
  Modules <- MCModules
  Names = {"fs", "ffi"}
  Name <- MCName
  Internal = {fs, ffi}
  Linked = {linked_fs, linked_ffi}
  Extra = {extra_fs}
  Exports <- MCExports
  processBindingAllowList = {"fs"}
  legacyWrapperList = {}
  MaxRuns = 2
  MaxDepth = 2
INVARIANTS RegistriesExact BindingConfined NearestFound
PROPERTY LinkedStable
CHECK_DEADLOCK FALSE
