SPECIFICATION Spec
CONSTANTS
  PublicIds = {"events", "ffi", "sqlite"}
  InternalIds = {"internal/util"}
  schemelessBlockList = {"ffi", "sqlite"}
  experimentalModuleList = {"sqlite"}
INVARIANTS LoadingIsRunning LoadedOnce SchemesAgree FlagsNeeded
PROPERTY KeysComplete
\* Everything loaded is an end.
CHECK_DEADLOCK FALSE
