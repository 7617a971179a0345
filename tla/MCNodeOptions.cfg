SPECIFICATION Spec
CONSTANTS
  Starts <- MCStarts
  IntMax = 15
  TwoTo64 = 2147483647
INVARIANTS EnvvarConfined SchemaAccepted Implied InspectorSettled SecureHeapSane ProfilesPlaced
PROPERTIES EveryStartEnds
\* A process that has started, or failed to, is an end.
CHECK_DEADLOCK FALSE
