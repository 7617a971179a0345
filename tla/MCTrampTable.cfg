SPECIFICATION Spec
CONSTANTS
  Closures = {c1, c2, c3, c4, c5}
  Tables = {t1, t2}
  NTramp = 2
  NativeRaw = FALSE
  MaxBusy = 2
  NULL = NULL
SYMMETRY Symmetric
INVARIANTS ListsExact OneIdleTable EntersOwner
PROPERTY PoolSpec
