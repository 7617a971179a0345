----------------------------- MODULE CliOptions -----------------------------
(***************************************************************************)
(* The options binding of node_options.cc. To read an environment's values *)
(* with the process's parser, a call puts the environment's objects in the *)
(* place of the process's own (IterateCLIOptionsScope) while it holds      *)
(* cli_options_mutex. Environments run on threads of their own, and may    *)
(* share an isolate's options with one another or with the process.        *)
(*                                                                         *)
(* Objects are shared pointers: which object is pointed to is modelled,    *)
(* and not what its fields hold. Names that NodeOptions has too begin with *)
(* Cli here, so that one module can extend both.                           *)
(***************************************************************************)
EXTENDS Naturals

CONSTANTS
  Environments,
  MaxCalls,                    \* bound: the calls that an environment makes
  IsolateOptions, EnvOptions,  \* the objects of those types
  isolate_options,             \* env->isolate_data()->options()
  env_options,                 \* env->options()
  process_isolate,             \* cli_options->per_isolate at rest
  isolate_env,                 \* the per_env of each isolate's options at rest
  None

ASSUME ObjectsAssumption ==
  /\ isolate_options \in [Environments -> IsolateOptions]
  /\ env_options \in [Environments -> EnvOptions]
  /\ process_isolate \in IsolateOptions
  /\ isolate_env \in [IsolateOptions -> EnvOptions]
  /\ MaxCalls \in Nat
  /\ None \notin Environments \cup IsolateOptions \cup EnvOptions

VARIABLES
  per_isolate,            \* per_process::cli_options->per_isolate
  per_env,                \* the per_env of each isolate's options
  cli_options_mutex,      \* the environment that holds it, or None
  place, call,            \* where each environment's thread is, and in what call
  calls,                  \* how many it has made
  has_run_bootstrapping_code,
  exception,              \* environments whose call has thrown
  original_per_isolate, original_per_env,  \* the scope's members
  seen,                   \* the objects that the values were read from: "abort"
                          \* is the one of --abort-on-uncaught-exception
  result                  \* what the last call gave: those objects, or None

pointers == <<per_isolate, per_env>>
scope == <<original_per_isolate, original_per_env>>
cli_vars == <<pointers, cli_options_mutex, place, call, calls, has_run_bootstrapping_code, exception, scope, seen, result>>

Calls == {"GetCLIOptionsValues", "GetCLIOptionsInfo", "GetEnvOptionsInputType"}
Nothing == [isolate |-> None, env |-> None, abort |-> None]

\* What an environment is to be told: the values of its own objects, but one
\* value is of the per_env that its isolate's options have at rest.
Answer ==
  [e \in Environments |->
     [isolate |-> isolate_options[e], env |-> env_options[e],
      abort |-> isolate_env[isolate_options[e]]]]

Goto(e, there) == place' = [place EXCEPT ![e] = there]

-----------------------------------------------------------------------------
\* The bootstrapping code of an environment ends. It may call the binding too,
\* which throws.
Bootstrap(e) ==
  /\ place[e] = "idle" /\ e \notin has_run_bootstrapping_code
  /\ has_run_bootstrapping_code' = has_run_bootstrapping_code \cup {e}
  /\ UNCHANGED <<pointers, cli_options_mutex, place, call, calls, exception, scope, seen, result>>

\* A call: one that comes too early throws, and goes on all the same.
Enter(e, f) ==
  /\ place[e] = "idle" /\ Goto(e, "lock")
  /\ calls[e] < MaxCalls /\ calls' = [calls EXCEPT ![e] = @ + 1]
  /\ call' = [call EXCEPT ![e] = f]
  /\ exception' = IF e \in has_run_bootstrapping_code THEN exception \ {e}
                  ELSE exception \cup {e}
  /\ UNCHANGED <<pointers, cli_options_mutex, has_run_bootstrapping_code, scope, seen, result>>

\* Mutant: the mutex is not waited for.
LockFree == TRUE

MutexFree == cli_options_mutex = None

Lock(e) ==
  /\ place[e] = "lock" /\ MutexFree
  /\ cli_options_mutex' = e
  /\ Goto(e, IF call[e] = "GetEnvOptionsInputType" THEN "unlock" ELSE "isolate")
  /\ UNCHANGED <<pointers, call, calls, has_run_bootstrapping_code, exception, scope, seen, result>>

\* The scope's constructor: the isolate's options first.
EnterIsolate(e) ==
  /\ place[e] = "isolate" /\ Goto(e, "env")
  /\ original_per_isolate' = [original_per_isolate EXCEPT ![e] = per_isolate]
  /\ per_isolate' = isolate_options[e]
  /\ UNCHANGED <<per_env, cli_options_mutex, call, calls, has_run_bootstrapping_code, exception,
                 original_per_env, seen, result>>

\* Then their per_env.
EnterEnv(e) ==
  /\ place[e] = "env"
  /\ Goto(e, IF call[e] = "GetCLIOptionsValues" THEN "read" ELSE "leave env")
  /\ original_per_env' = [original_per_env EXCEPT ![e] = per_env[per_isolate]]
  /\ per_env' = [per_env EXCEPT ![per_isolate] = env_options[e]]
  /\ UNCHANGED <<per_isolate, cli_options_mutex, call, calls, has_run_bootstrapping_code, exception,
                 original_per_isolate, seen, result>>

\* What the parser reads the options of an environment from.
CurrentEnv == per_env[per_isolate]

Reading(e) == [isolate |-> per_isolate, env |-> CurrentEnv, abort |-> original_per_env[e]]

\* The loop over the options reads them all, or ends at a value that V8 could
\* not make. They are looked up from the pointers as they are now, all but
\* --abort-on-uncaught-exception, whose value is that of original_per_env.
Read(e) ==
  /\ place[e] = "read" /\ Goto(e, "leave env")
  /\ seen' \in {seen, [seen EXCEPT ![e] = Reading(e)]}
  /\ UNCHANGED <<pointers, cli_options_mutex, call, calls, has_run_bootstrapping_code, exception, scope, result>>

\* Mutant: the isolate's options keep the environment's.
EnvLeft(e) == per_env

\* The scope's destructor puts the isolate's per_env back.
EnvRestored(e) == [per_env EXCEPT ![per_isolate] = original_per_env[e]]

LeaveEnv(e) ==
  /\ place[e] = "leave env" /\ Goto(e, "leave isolate")
  /\ per_env' = EnvRestored(e)
  /\ UNCHANGED <<per_isolate, cli_options_mutex, call, calls, has_run_bootstrapping_code, exception,
                 scope, seen, result>>

\* And the process's options; the scope is gone.
LeaveIsolate(e) ==
  /\ place[e] = "leave isolate" /\ Goto(e, "unlock")
  /\ per_isolate' = original_per_isolate[e]
  /\ original_per_isolate' = [original_per_isolate EXCEPT ![e] = None]
  /\ original_per_env' = [original_per_env EXCEPT ![e] = None]
  /\ UNCHANGED <<per_env, cli_options_mutex, call, calls, has_run_bootstrapping_code, exception,
                 seen, result>>

\* Mutant: a call that returns early leaves the mutex locked.
MutexAfter(e) == IF seen[e] = Nothing THEN cli_options_mutex ELSE None

Released(e) == None

\* The lock's destructor; the exception that was thrown hides the result.
Return(e) ==
  /\ place[e] = "unlock" /\ Goto(e, "idle")
  /\ cli_options_mutex' = Released(e)
  /\ result' = [result EXCEPT ![e] = IF e \in exception THEN Nothing ELSE seen[e]]
  /\ seen' = [seen EXCEPT ![e] = Nothing]
  /\ UNCHANGED <<pointers, call, calls, has_run_bootstrapping_code, exception, scope>>

CliInit ==
  /\ per_isolate = process_isolate /\ per_env = isolate_env
  /\ cli_options_mutex = None
  /\ place = [e \in Environments |-> "idle"]
  /\ call = [e \in Environments |-> "GetCLIOptionsValues"]
  /\ calls = [e \in Environments |-> 0]
  /\ has_run_bootstrapping_code = {} /\ exception = {}
  /\ original_per_isolate = [e \in Environments |-> None]
  /\ original_per_env = [e \in Environments |-> None]
  /\ seen = [e \in Environments |-> Nothing]
  /\ result = [e \in Environments |-> Nothing]

\* The steps of a thread inside a call.
Inside(e) ==
  \/ EnterIsolate(e) \/ EnterEnv(e) \/ Read(e)
  \/ LeaveEnv(e) \/ LeaveIsolate(e) \/ Return(e)

CliNext ==
  \E e \in Environments :
    Bootstrap(e) \/ (\E f \in Calls : Enter(e, f)) \/ Lock(e) \/ Inside(e)

\* A thread in a call goes on with it, and one that waits for the mutex gets it
\* when no other thread calls any more; no more is asked of the mutex.
Fairness == \A e \in Environments : WF_cli_vars(Lock(e) \/ Inside(e))

CliSpec == CliInit /\ [][CliNext]_cli_vars /\ Fairness

-----------------------------------------------------------------------------
Places == {"idle", "lock", "isolate", "env", "read", "leave env", "leave isolate", "unlock"}
Readings ==
  [isolate : IsolateOptions \cup {None}, env : EnvOptions \cup {None}, abort : EnvOptions \cup {None}]

\* The state has its types.
CliTypeOK ==
  /\ per_isolate \in IsolateOptions
  /\ per_env \in [IsolateOptions -> EnvOptions]
  /\ cli_options_mutex \in Environments \cup {None}
  /\ place \in [Environments -> Places]
  /\ call \in [Environments -> Calls] /\ calls \in [Environments -> Nat]
  /\ has_run_bootstrapping_code \subseteq Environments
  /\ exception \subseteq Environments
  /\ original_per_isolate \in [Environments -> IsolateOptions \cup {None}]
  /\ original_per_env \in [Environments -> EnvOptions \cup {None}]
  /\ seen \in [Environments -> Readings]
  /\ result \in [Environments -> Readings]

\* While nobody holds the mutex, the process has its own options and every
\* isolate's have their own per_env, whichever objects the environments share
\* and however the calls before ended (~IterateCLIOptionsScope).
Restored ==
  cli_options_mutex = None => per_isolate = process_isolate /\ per_env = isolate_env

\* Though all of them are read through one pointer, an environment is told the
\* values of its own isolate's options and of its own environment's, but for
\* --abort-on-uncaught-exception (GetCLIOptionsValues): that one is not its own
\* but its isolate's at rest, and never what the pointer is while another
\* environment on the same isolate has its options swapped in.
AnswersExact == \A e \in Environments : result[e] \in {Nothing, Answer[e]}

\* Every call returns.
CallsReturn == \A e \in Environments : place[e] # "idle" ~> place[e] = "idle"

Service ==
  INSTANCE OptionsService WITH
    Refused <- Nothing, told <- result,
    asking <- {e \in Environments : place[e] # "idle"}

\* The binding keeps the promise of OptionsService: no step of the swapping is
\* visible in what an environment is told, in any of the three objects that its
\* values come from.
ImplementsService == Service!Spec
=============================================================================
