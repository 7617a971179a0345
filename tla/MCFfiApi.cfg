SPECIFICATION Spec
CONSTANTS
  Objs = {o1, o2, o3}
  Paths = {p1}
  Plain = {z, v}
  Zero = z
  NULL = NULL
  DefMaps <- CallDefMaps
  MaxSyms = 2
  MaxArgs = 1
  MaxDepth = 3
  MaxTimers = 0
SYMMETRY Symmetric
INVARIANTS FaultsHaveCauses RunningInvokersLive NoInvokerLeak
CHECK_DEADLOCK FALSE
