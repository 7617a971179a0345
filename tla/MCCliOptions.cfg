SPECIFICATION CliSpec
CONSTANTS
  main = main
  second = second
  worker = worker
  i0 = i0
  i1 = i1
  o0 = o0
  o1 = o1
  o2 = o2
  o3 = o3
  None = None
  MaxCalls = 2
  Environments <- MCEnvironments
  IsolateOptions <- MCIsolateOptions
  EnvOptions <- MCEnvOptions
  isolate_options <- MCisolate_options
  env_options <- MCenv_options
  process_isolate = i0
  isolate_env <- MCisolate_env
INVARIANTS Restored
PROPERTIES CallsReturn ImplementsService
\* Every environment has made its calls.
CHECK_DEADLOCK FALSE
