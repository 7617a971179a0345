---------------------------- MODULE MCCliOptions ----------------------------
(* A small instance of CliOptions for TLC: the main environment shares its *)
(* isolate's options with the process, a second one is on the same isolate *)
(* and a worker has its own.                                               *)
EXTENDS CliOptions

CONSTANTS main, second, worker, i0, i1, o0, o1, o2, o3

MCEnvironments == {main, second, worker}
MCIsolateOptions == {i0, i1}
MCEnvOptions == {o0, o1, o2, o3}
MCisolate_options == [e \in MCEnvironments |-> IF e = worker THEN i1 ELSE i0]
MCenv_options ==
  [e \in MCEnvironments |-> CASE e = main -> o0 [] e = second -> o1 [] e = worker -> o2]
MCisolate_env == [i \in MCIsolateOptions |-> IF i = i0 THEN o0 ELSE o3]
=============================================================================
