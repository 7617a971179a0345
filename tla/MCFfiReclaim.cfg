SPECIFICATION FairSpec
CONSTANTS
  Objs = {o1, o2}
  Paths = {p1}
  Plain = {z, v}
  Zero = z
  NULL = NULL
  DefMaps <- FairDefMaps
  MaxSyms = 2
  MaxArgs = 0
  MaxDepth = 2
  MaxTimers = 2
INVARIANT KeepAliveExact
PROPERTY InvokersReclaimed
CHECK_DEADLOCK FALSE
