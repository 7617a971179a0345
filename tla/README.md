# A verification of the Node.js FFI prototype

The repository adds a foreign function interface to Node.js: a JavaScript module
(`lib/ffi.js`), a native binding (`src/node_ffi.cc`), a copy of libffi
(`deps/libffi`) and the places where Node.js has to know of them (the module
loader, the addon loader, the options). This directory holds TLA+ models of the
parts that carry logic of their own, the TLC instances that check them, and
proofs that TLAPS checks.

## 1. Inventory

| Part | State it keeps | Operations | Hard behaviour |
| --- | --- | --- | --- |
| JavaScript API and binding (`lib/ffi.js`, `src/node_ffi.cc`) | wrappers, native libraries / invokers / callbacks, argument slots, the finalization registry, intervals | `dlopen`, `UnsafeFnPointer`, `UnsafeCallback`, call, callback, `close`, `ref`, `unref`, finalizers | re-entrant calls through callbacks, collection at any time, objects closed or dropped while in use |
| Static trampolines (`tramp.c`) | `tramp_globals`, tables, two levels of doubly-linked lists, parameters | `ffi_tramp_alloc`, `_set_parms`, `_get_addr`, `_free`, `_is_supported` | tables mapped and unmapped while other threads' closures use them, failing initialization |
| Executable memory (`closures.c`) | `execfd`, `execsize`, position in the list of places | `dlmmap`, `dlmmap_locked`, `open_temp_exec_file` | system calls that fail half-way, two mappings of one file, a search that must end |
| Allocator segments (`dlmalloc.c`) | segment list, chunk bins | allocate, trim, release | closure functions read the list without its lock |
| Raw calls (`raw_api.c`) | none | slots to argument pointers and back | the width of a slot against the width of a value |
| Call interface (`prep_cif.c`, `x86/ffi64.c`, other architectures) | `ffi_cif` | prepare, classify, place arguments | boundaries between registers and stack |
| Module loader (`realm.js`) | `BuiltinModule.map`, the lists of public identifiers | `require`, `canBeRequiredByUsers`, `compileForPublicLoader` | cyclic loading, modules enabled at run time |
| Addon loader (`node_binding.cc`) | `global_handle_map`, `thread_local_modpending`, `dlib_load_mutex` | `process.dlopen`, `Open`, `Close` | one library loaded by several threads, failing initializers |
| Binding registries and their loaders (`node_binding.cc`, `realm.js`) | `modlist_internal`, `modlist_linked`, each environment's extra list, the caches of the loaders | `node_module_register`, `RegisterBuiltinBindings`, `AddLinkedBinding`, `internalBinding`, `process.binding`, `process._linkedBinding` | lists that grow on other threads, initializers that ask for bindings, two caches that must stay apart |
| Options at the start (`node_options.cc`, `node_options.h`) | the table of options, aliases and implications; the fields of `PerProcessOptions` | `HandleEnvOptions`, `ParseNodeOptionsEnvVar`, two parses, four `CheckOptions` | two passes over the same objects, implications and aliases in any order, what the environment may not reach |
| Options binding (`node_options.cc`) | `cli_options`, its pointers to the isolate's and environment's options, `cli_options_mutex` | `GetCLIOptionsValues`, `GetCLIOptionsInfo`, `GetEnvOptionsInputType` | the process's pointers are swapped for an environment's while other threads wait |

How they interact. `ffi.js` calls the binding; the binding owns every native
object and hands its address to JavaScript as an `External`. A call goes
`CallInvoker` -> `ffi_raw_call` -> native code; native code may enter a callback
through a trampoline (`ffi_closure_alloc`, `ffi_prep_raw_closure`), which calls
back into JavaScript on the same stack, and that may call native code again.
Finalizers run as tasks, when the stack is empty. libffi's memory and
trampolines are shared by all isolates (worker threads) of the process and
protected by its own mutexes; everything in `ffi.js` and `node_ffi.cc` belongs
to one isolate. The options are parsed once, by one thread, before any
JavaScript runs: first the words of `NODE_OPTIONS`, then those of the command
line, into the same objects. Afterwards every environment reads its own through
the options binding. `node_ffi.cc` is an internal binding: it enters
`modlist_internal` with the others and is reached through `internalBinding`,
which only Node.js's own modules can call.

What makes each part correct is in the property lists below; what is hard to
test in it is in `hazards` of `PROJECT.json`, each at its line.

## 2. Modules

| Module | Models | Checked by | Proofs |
| --- | --- | --- | --- |
| `FfiApi` | `ffi.js`, `node_ffi.cc` | `MCFfiApi` (2 configurations) | `FfiApi_proof` |
| `TrampPool`, `TrampTable` | the promise of static trampolines, `tramp.c` | `MCTrampTable` | `TrampTable_proof` |
| `RawSlots` | `readValue`, `wrapValue`, `raw_api.c` | `MCRawSlots` | `RawSlots_proof` |
| `ExecFile` | `dlmmap_locked`, `open_temp_exec_file` | `MCExecFile` | `ExecFile_proof` |
| `AddonLoader` | `DLOpen`, `DLib`, `global_handle_map` | `MCAddonLoader` (2) | `AddonLoader_proof` |
| `BuiltinLoader` | `BuiltinModule` of `realm.js` | `MCBuiltinLoader` | `BuiltinLoader_proof` |
| `Bindings` | the lists of `node_binding.cc`, the loaders of `realm.js` | `MCBindings` | `Bindings_proof` |
| `OptionTable`, `NodeOptions` | the parsers' table; the start of a process from its variables and words | `MCNodeOptions` | `Options_proof` |
| `EnvLexer` | `ParseNodeOptionsEnvVar` | `MCEnvLexer` | `Options_proof` |
| `OptionsService`, `CliOptions` | the promise of the options binding; the binding and its scope | `MCCliOptions` | `Options_proof` |

Each module is parameterised by CONSTANTS with a named ASSUME; the `MC` modules
only add definitions of constants and the symmetry sets. An operator with the
comment "Mutant:" is a plausible mistake in the code, written beside the
definition that it would replace; `PROJECT.json` pairs them with the property
that notices. A module's type invariant is proved where there is a proof module;
elsewhere it is the first conjunct of the first invariant that a run checks.

### FfiApi: the JavaScript API and the binding

`kind`, `held`, `collected`, `closes` are the wrappers as the program and the
collector see them; `native`, `invoker`, `nargs`, `target`, `datas` the objects
of `node_ffi.cc`; `cells` and `cleanup` the finalization registry `gcInvoker`;
`timer` and `intervals` the `#timeout` fields and the event loop; `stack` the
native and JavaScript frames; `fault` the first access to memory or code that is
gone. One action per function: `Dlopen` (the whole constructor loop, with its
two ways to throw), `DlopenNoFile`, `NewFnPointer`, `NewCallback`, `CallInvoker`
and `NativeReturn` (the two halves of a call), `DoCallback`, `CallbackReturn`,
`CallbackThrow`, `Close`, `Ref`, `Unref`, `Drop` (the program lets go),
`Collect`, `FreeInvoker` (a clean-up task).

The program is unrestricted: it may keep functions of a dropped library, close
twice, close what is running. Such a program reaches a `fault`, and the model
stops there; the properties say what must have happened before. Ids of native
objects are never reused, so that a reuse of freed memory is always a fault.
Left out: results (and so a callback's unwritten result), views over memory,
native threads other than the isolate's, exceptions that stay pending.

* `FaultsHaveCauses`: a freed invoker is only reached through a wrapper that was
  dropped, a freed callback or unmapped code only after `close()` on it, a
  double free only after two `close()`. In particular finalizers never free
  anything too early or twice.
* `RunningInvokersLive`: `doInvoke` uses its invoker again after the native
  function returns; a collection during the call cannot have freed it.
* `NoInvokerLeak`, `InvokersReclaimed`: also after a constructor that threw
  half-way, all invokers of a collected wrapper are queued, and freed if the
  stack keeps emptying.
* `KeepAliveExact`: `ref` and `unref` never lose an interval.

### TrampPool and TrampTable: static trampolines

`TrampTable` has `tramp_globals` and the tables as one record `pool` and one
operator per static function of `tramp.c` (`TableAdd`, `TableDel`, `TableAlloc`,
`TableFree`, `TrampAdd`, `TrampDel`) on it; both lists are kept with their
`prev` and `next` links. Each `ffi_tramp_*` function holds the mutex throughout
and is one step; the closure functions of `closures.c` make several of them, and
`pc` says how far each closure's thread has come. `platform` chooses what
`ffi_tramp_init` meets: no `ffi_tramp_arch`, a page larger than the code, a file
that can or cannot be mapped.

* `ListsExact`: every table lists exactly its unheld trampolines, the global
  list exactly the tables that have one, counters and back links included.
* `OneIdleTable`: at most one table is wholly free, what the comment at
  `tramp.c:565` asks for.
* `EntersOwner`: the code address of a prepared closure stays mapped and enters
  that closure.
* `PoolSpec`: `TrampTable` implements `TrampPool`, the promise that every
  closure has an entry point of its own that enters it until it is given back.

### RawSlots: values on their way

Operators for both conversions of `node_ffi.cc` (`ReadValue`, `WrapValue`) and
both loops of `raw_api.c` (`RawToArgs`, `ArgsToRaw`), on words that are numbers
of `WordBytes` bytes with `ByteValues` values each. The actions call a function
and a callback of one signature in turn (`CallInvoker`, `NativeReturn`,
`DoCallback`, `CallbackReturn`). A byte of four values keeps every 64-bit value
inside TLC's integers and leaves all boundaries where they are: of int32 and
uint32 inside int64, of a type inside its slot. The proofs hold for every size
of a byte.

* `ArgumentsArrive`, `ResultsArrive`: every value arrives as C converts it,
  whatever stands in the slots before it. The reference is the definition of the
  conversion (`CValue`, a remainder), not the code's case distinctions.

### ExecFile: memory that is writable here and executable there

`pc` is the next system call of `dlmmap_locked`; every one may fail. `file` has
its length, its offset (which `ftruncate` does not move) and its blocks; `idx`
and `mounts` are the state of the search for a place, `segments` what is mapped.

* `SegmentsDisjoint`, `SegmentsInFile`: whatever failed before, no two segments
  share a page of the file and none loses its pages.
* `CallsReturn`: the search for a place ends, with the list that Linux has.

### AddonLoader: process.dlopen, and the FFI beside it

`node_ffi.cc` opens libraries through `DLib`, the class of `process.dlopen`.
`opens` counts what the dynamic linker counts; `map` is `global_handle_map`;
`pending` is `thread_local_modpending`; `lock` is `dlib_load_mutex`; `frames` are
each thread's calls of `DLOpen`, with the step they have come to, and `addons`
the libraries its environment has loaded. Every point where another thread can
come in between is a step: before and after each access to the shared map, and
between the two halves of `DLib::Close`, which an environment's destruction runs
without the mutex. Addons are records of what their constructors and symbols
do. `dlclose` may fail, and with musl does nothing: `unclosed` remembers the
libraries that were left open. The destruction of an environment and the list `loaded_addons_` belong to
code that is not in the repository.

* `CountsExact`: linker and map count exactly the libraries in use.
* `ModulesAlive`: no load uses a module whose library another thread unloaded.
* `SelfWaitsBySymbol`: who can wait for the mutex that it holds; see section 4.
* `NothingPending` is for the run `addon_ffi`, see section 4: where the FFI opens no
  library that registers a module it holds at once, as `DLOpen` takes what its
  own constructors have left.

### BuiltinLoader: which modules a program gets

The lists of `realm.js` and the life of a built-in module: `RequireBuiltin`,
`Require` (by the program, with the `node:` scheme or without, also from a function
of its own that a built-in calls while it is loaded), `Export`, `Return`, `Throw`. A
module's function may require any other at any time, so every cycle of requires
occurs. Nobody in the repository calls `setRealmAllowRequireByUsers`; a realm's list
may name any modules, and `realmIds` remembers it.

* `LoadingIsRunning`, `LoadedOnce`: a module is loading exactly while its
  function runs, succeeds at most once, and can be tried again after a failure.
* `KeysComplete`: the names an ES import sees are taken once, and are all the
  module's names unless the program asked for it while its function ran.
* `SchemesAgree`: the two lists stay in step but for modules that are not public
  and that a realm's own list names; only for these can the assertion in
  `compileForPublicLoader` throw.
* `FlagsNeeded`: an experimental or internal module is out of reach without its
  flag in every realm, even if another built-in has loaded it.

### Bindings: who finds which binding

`modlist_internal`, `modlist_linked` and `extra_linked_bindings` are the three
kinds of lists; `internalCache` and `linkedCache` the two `bindingObj` of
`realm.js`, the first behind `internalBinding`, the second shared by
`process.binding` and `process._linkedBinding`; `internal_bindings` and
`moduleLoadList` the realm's own record; `frames` each environment's calls of
`_linkedBinding` that are not over, since a linked binding's initializer is a
user's code and may ask for bindings itself, its own among them. Exports stand
for the run of the initializer that made them. A search for a linked binding is
one step per list (`Walk`): each is locked only while it is searched, and
embedders add to all of them (`AddLinkedBinding`) meanwhile.

* `RegistriesExact`: types; the realm's set, the reported names and the cache
  agree, so an internal binding is initialized once per environment; no module
  enters a list without the flag whose absence makes `FindModule` abort.
* `BindingConfined`: whatever Node.js has loaded for itself, a program reaches
  only the internal bindings on the allow list; the two caches stay apart.
* `NearestFound`: a worker's search stops at the nearest list that had the name
  when it began, though lists grow while it walks.
* `LinkedStable`: the object that `_linkedBinding` has given is given again,
  unless an older call, whose initializer asked for the same binding, is still
  to end.

What the model also shows, and no line of the code promises otherwise: a linked
binding whose exports are a function is not taken from the cache (`typeof mod
=== 'object'`) and is initialized again by every call; a linked binding with the
name of an internal one stands before it in `process.binding`, once it was asked
for; an initializer that asks for its own binding makes two exports objects.

### OptionTable and NodeOptions: from words to options

`OptionTable` is data: every `AddOption`, `AddAlias`, `Implies` and
`ImpliesNot`, for the build this repository configures. `NodeOptions` runs a
start: `HandleEnvOptions`, then the parser's loop (`PopFirst`, `ExpandAlias`,
`Apply`, `EndOfOptions`) over the words of `NODE_OPTIONS`, `CheckOptions`, and
both once more over the command line. `written` holds the fields that were
written; `Lookup` gives the others their initial value. The loop itself is in
`node_options-inl.h`, which is not in the repository: it is modelled from the
declarations and comments of `node_options.h` and marked external. A word is an
option's name with a negation and a value, or an argument; a text is a sequence
of words, numbers and punctuation, so that host and port can be split and lists
cut. A field is written under its option's name (`Field`: `--debug` and
`--debug-brk` share one); what a word writes is its own field (`OwnFields`,
`OwnValue`) and those that it implies (`ImpliedFields`, `ImpliedValue`). Of
numbers, the model has those in `Numbers`, and `TwoTo64` and `IntMax` stand for
the widths of `uint64_t` and `int`.

* `EnvvarConfined`: through no alias, implication or negation does
  `NODE_OPTIONS` write the field of an option that it may not have. The one
  exception is the internal option for the certificates' store.
* `SchemaAccepted`: the map from which the configuration file's schema is made
  (`getEnvOptionsInputType`) says of each option what the parser does with it.
* `Implied`: in what order the words came, and in which of the two passes, does
  not matter to what they imply: the inspector and the watcher are on, a script
  to evaluate excludes its alternatives, the store is the one of the last word.
* `InspectorSettled`: destinations, port and the right to attach a debugger
  follow from the last words, though `CheckOptions` ran on earlier ones.
* `SecureHeapSane`: what OpenSSL gets are powers of two within bounds, though
  the minimum was clamped for another size of heap in the first pass.
* `ProfilesPlaced`: which directory a profile goes to, by the words alone
  (`DirOf`): that of the last `--cpu-prof-dir`, wherever it stands; without one,
  that of the `--diagnostic-dir` in `NODE_OPTIONS` if the profile is asked for
  there, because the first `CheckOptions` settles it, and else that of the last
  `--diagnostic-dir`. And no process has a place for a profile it does not take.
  Said of lists of words that are spelled out: an alias or an argument apart from
  its option makes it depend on the parser's loop which words are an option's.
* `EveryStartEnds`: no chain of aliases expands for ever.

### EnvLexer: the text of NODE_OPTIONS

One step reads one character, or a backslash and what it escapes.
`Written(words)` is what a user may write for a list of words.

* `WordsArrive`: every list of words that are not empty can be written so that
  it arrives as it was.
* `TextKept`: types; nothing of a text is lost or doubled; without backslashes,
  a text is refused exactly if a quote has no partner.

### OptionsService and CliOptions: reading the options

`OptionsService` is what an environment may rely on: it asks, and is refused or
given its `Answer`, the same whoever else asks. `CliOptions` is how: under `cli_options_mutex`,
`IterateCLIOptionsScope` puts the environment's objects where the process's are,
first the isolate's (`EnterIsolate`), then their `per_env` (`EnterEnv`), and its
destructor takes them out in the other order (`LeaveEnv`, `LeaveIsolate`). Each
assignment is a step. Objects are shared pointers and may be the same for
several environments. A call before the bootstrapping code has run throws *and
goes on*: `THROW_ERR_OPTIONS_BEFORE_BOOTSTRAPPING` has no `return` behind it.

* `Restored`: while the mutex is free, every pointer is what it was at first.
* `AnswersExact` (proved), `ImplementsService`: the swaps show in no answer. An
  answer names the three objects that values are read from: the environment's own
  isolate options, its own options, and for `--abort-on-uncaught-exception`, which
  is read from `original_per_env`, the `per_env` that its isolate's options have at
  rest (`Answer`, `Reading`). That one may be another environment's, or the
  process's, see section 4; it is never the one that another environment's call
  has just swapped in.
* `CallsReturn`: every call returns.

## 3. Runs, bounds, fairness

| Run | Instance | Why it is enough |
| --- | --- | --- |
| `api_lifecycle` | 3 wrappers, 2 symbols, 1 argument of 2 values, stack of 3 | a library, a function pointer and a callback at once; a call inside a callback inside a call is where frames can disturb each other |
| `api_reclaim` | 2 wrappers, every outcome of the constructor's loop, 2 intervals, stack of 2; not symmetric, as it has a liveness property | a failed and a complete constructor; a second `ref` is what could lose an interval |
| `tramp_lists` | 5 closures, 2 tables of 2 trampolines, 2 threads inside the functions at a time | tables fill, are freed from both ends of the list, a table is unmapped while another thread is between two calls, and no room is left |
| `raw_64` | slots of 8 bytes of 4 values, every type before and after an 8-byte, a 1-byte and a float one; values on both sides of every boundary | each loop handles one value at a time and carries only its position over |
| `exec_file` | three places, the last two of them mounts files with up to 2 entries, segments of 1 and 2 pages, 7 pages written | a failure can follow each of several segments, and the search wraps |
| `addon_load` | 2 threads, four kinds of addons, loads inside loads from every initializer, 2 libraries per environment, each open at most twice when a load begins; the FFI opens libraries that register nothing | every race of the code is between two threads over one library |
| `addon_ffi` | the same, and the FFI opens a library that registers a module | violation, see section 4 |
| `builtin_life` | one module of each kind | a cycle needs two modules |
| `bindings_life` | a main thread and its worker; an allowed internal binding whose name a linked and an added one have too, an internal one that is not allowed, one without an entry point; 2 initializers, 2 calls inside each other | the shortest chain of lists with another thread's list in it; one call inside another is what can put a second object into the cache |
| `options_start` | every name of the table alone, negated, with a value, an empty value or an argument, in either place; eight groups of words that have to do with each other, up to three of them split in every way between `NODE_OPTIONS` and the command line; two directories of either kind for a profile; `IntMax` 15 | implications and checks relate two or three options; the secure heap's sizes lie on both sides of `IntMax` |
| `options_lexer` | all texts of up to 6 characters, all lists of up to 2 words of up to 2 characters | the lexer remembers two bits, and an opening, an escape and a closing quote fit in 6 characters with something between them |
| `options_values` | the main environment, which shares its objects with the process, another on the same isolate, a worker; 2 calls each | two threads suffice for a race, a second call for what a first one left behind |

Bounds that are in guards are named in the CONSTANTS (`MaxDepth`, `MaxTimers`,
`MaxBusy`, `MaxPages`, `MaxMounts`, `MaxAddons`, `MaxOpens`, `MaxRuns`,
`MaxCalls`). `CHECK_DEADLOCK FALSE` stands in the configurations of `FfiApi` (a
fault ends the model, and wrappers are never reused), of `ExecFile` (no pages
left under the bound), of `AddonLoader` (a thread may wait for itself), of `BuiltinLoader` (everything is loaded), of
`NodeOptions` and `EnvLexer` (the start, or the function, is over), of
`CliOptions` (every environment has made its calls) and of `Bindings` (an
abort, or no initializers left under the bound).

Fairness. `FfiApi!FairSpec` has strong fairness of `FreeInvoker`: a clean-up
task runs only while the stack is empty, and V8's task queue does not pass over
a task for ever; `InvokersReclaimed` assumes itself that the stack empties again
and again, which only the program can guarantee. `ExecFile!FairSpec` has weak
fairness of the thread inside `dlmmap_locked`, which waits for nobody.
`CliOptions` has weak fairness of every thread inside a call: it is scheduled,
and it gets the mutex when nobody else contends for it any more. A mutex need
not be fair to a thread while others keep taking it; `CallsReturn` holds without
that because each environment makes finitely many calls (`MaxCalls`).
`NodeOptions` has weak fairness of its one thread. All other specifications are
checked for safety only.

## 4. Disagreements between code and documents

One run ends in a violation: `addon_ffi`. A library opened with the FFI can leave
a module in `thread_local_modpending`, because `LoadLibrary` does not look at
it; the `CHECK_NULL` of the next `process.dlopen` fails. `findings` in
`PROJECT.json` quotes both sides.

Three more disagreements show when one constant of a passing instance is changed:

* `NativeRaw = TRUE` in `MCTrampTable.cfg` (32-bit x86, which `PR.md:45` lists as
  supported): `EntersOwner` is refuted. `x86/ffi.c:715` writes instructions over
  the closure's trampoline field, and nobody sets the parameters of the static
  trampoline whose address the program got.
* `WordBytes = 4` in `MCRawSlots64.cfg` (32-bit ARM, `PR.md:47`):
  `ArgumentsArrive` is refuted. A 64-bit argument takes two slots and
  `node_ffi.cc:220` has one.
* `Repeat <- PlainOpts` in `MCExecFile.cfg` (a platform whose configuration asks for
  `FFI_MMAP_EXEC_WRIT` without `HAVE_MNTENT`, so that no place repeats; on Linux
  other than Android `closures.c:135` and `136` define both, and the mounts files
  end the list): `CallsReturn` is refuted. If the last place can be opened but not
  mapped executable, `dlmmap_locked` (`closures.c:854`) searches for ever:
  `open_temp_exec_file_opts_next` reports the end of the list (`closures.c:745` to
  `747`), but the file was opened, so that report is lost and the next search
  begins at the first place.

One is what a property says: `node_binding.cc:565` explains the `ScopedUnlock` with
"Do not keep the lock while running userland addon loading code", but the
initializers that are found by their symbol (lines 515, 522 and 542) run with
`dlib_load_mutex` held, and one that loads another addon waits for itself.
`SelfWaitsBySymbol` shows that these, and only these, do.

Facts that need no run, each visible in a definition:

* `setRealmAllowRequireByUsers` filters the first of the two lists by
  `publicBuiltinIds` and not the second (`realm.js:273` to `278`). A list with another
  module makes them disagree, `normalizeRequirableId` finds that module and the
  "assertion against bugs" at line 333 throws. `SchemesAgree` bounds the disagreement.
* A program that requires a public built-in while that module's function runs leaves
  it with the names it had exported by then, for good (`realm.js:339`); `KeysComplete`
  excepts it.
* `--experimental-ffi` and `--allow-ffi` are parsed (`node_options.cc:515`) and
  read nowhere, though `PR.md` demands them.
* `allocate_space` writes its pages because a hole in the file would end in SIGBUS
  (`closures.c:790` to `796`), but after a failed mapping `ftruncate` cuts the file
  back and leaves its offset where it was: the next call writes behind the
  pages it then maps. `blocks` of `ExecFile` shows it; no property rests on it.
* A JavaScript boolean, which `ffi.js` allows for type `bool`, arrives as 0
  (`node_ffi.cc:58`); `RawSlots` includes it and leaves it out of its properties.
* `EnvironmentOptions::CheckOptions` reads the argument behind the program's name
  (`node_options.cc:192`) although there may be none: `CheckOptions` of
  `NodeOptions` chooses what it finds.
* `CheckOptions` runs after each pass, so `--cpu-prof --diagnostic-dir=d` in
  `NODE_OPTIONS` and `--no-cpu-prof` behind it is an error about
  `--cpu-prof-dir`, which nobody gave. In the same way `--watch` in
  `NODE_OPTIONS` keeps a debugger from attaching even if `--no-watch` follows
  (`DebuggerKept` excepts it).
* For the same reason `--cpu-prof --diagnostic-dir=d` in `NODE_OPTIONS` and
  `--diagnostic-dir=e` on the command line put the profile into `d`
  (`node_options.cc:216` to `218`, `233` to `235`), though all else goes to `e`, and
  though `--cpu-prof-dir=e` would have been heeded. The help text has
  `--diagnostic-dir` "set dir for all output files" (`node_options.cc:386-387`).
  `ProfilesPlaced` states what happens (`KeptDir`).
* `GetCLIOptionsValues` reads every value from the objects it has swapped in, so
  that an environment sees its own, but `--abort-on-uncaught-exception` from the
  object it has swapped out (`node_options.cc:1386` to `1390`). An environment whose
  options are not its isolate's `per_env`, such as `second` and `worker` in
  `MCCliOptions`, is told another object's value. `Answer` of `CliOptions` says so.
* The implications of `--use-openssl-ca` and `--use-bundled-ca` are not undone by
  a negation: `--use-openssl-ca --use-bundled-ca --no-use-bundled-ca` is accepted
  with the store switched off (`CertStoreAgrees` excepts negations).
* `--harmony-shadow-realm` is not allowed in `NODE_OPTIONS`, and
  `--experimental-shadow-realm`, which is, passes it on to V8.
* If the secure heap and its minimum are both greater than the greatest `int`, the
  minimum is clamped to that `int`, which is no power of two, and the start fails
  with an error about `--secure-heap-min`.
* `--async-context-frame` is declared on by default while its field is off, and
  `--node-snapshot` the other way round: help and documentation disagree with
  the run.
* A port that is no number is port 0, without an error; `""` in `NODE_OPTIONS`
  gives no argument at all, so an empty word cannot be passed on.
* The binding throws `ERR_OPTIONS_BEFORE_BOOTSTRAPPING` and goes on (section 2);
  the branch for `--stack-trace-limit` under `kV8Option` in
  `GetCLIOptionsValues` is never taken, since that option is an integer.

## 5. Proofs

Every theorem holds for all values of the constants that the named assumptions
allow: any sets of objects, threads, libraries or modules, any bounds. Where a
theorem needs more than that, it says so in its ASSUME, and section 4 has the run
that refutes the property without it.

`FfiApi_proof` proves `TypeCorrect`, `NoFaultWithoutCause` (`FaultsHaveCauses`),
`RunningInvokersStayLive`, `CollectedInvokersQueued` (`NoInvokerLeak`) and
`IntervalsAlwaysOwned` (`KeepAliveExact`). The second to the fourth are not inductive. The invariant
`IInv` behind them (`Invariance`) consists of

* `TypeOK`;
* `Lifecycle`: what each kind of wrapper owns, and that only `close` frees a
  native object;
* `Registry`: a cell in the registry has a live invoker of a wrapper that is not
  collected, a queued clean-up one of a collected wrapper, every live invoker
  has one or the other, and a freed one belongs to a collected wrapper - this is
  what excludes early and double finalization;
* `Targets`: an invoker that calls no foreign code calls into its own library or
  a callback, so a fault in its target leads back to a `close`;
* `Frames`: the invoker of every native frame on the stack is live, because
  `FreeInvoker` needs an empty stack; and JavaScript frames alternate with
  native ones;
* `FaultsHaveCauses` itself.

One lemma per conjunct has one step per action; they rest on `ApiAssumption`
only. For `KeepAliveExact` the types are enough.

`TrampTable_proof` proves `ListsAlwaysExact`, `AtMostOneIdleTable`,
`AlwaysEntersOwner` and the refinement `ImplementsTrampPool`, where raw closures
are prepared by `raw_api.c` (`NativeRaw = FALSE`; section 4 has the other case).
Its first half is about lists. `Orders` says that a sequence puts the members of
a set in the order of a list, with every `next`, `prev` and the head; pushing an
element and unlinking one keep such a sequence (`PushLinkKeeps`, `UnlinkKeeps`),
and from that follows what each of `tramp_table_add`, `tramp_table_del`,
`tramp_table_alloc`, `tramp_add` and `tramp_del` does to a pool that lists exactly
a given set of free trampolines (`Exact`). The second half is about closures: the
free trampolines are those that no closure holds (`Free`), a held one is in a
mapped table and held once, what has been prepared stays (`Holding`), and nothing
exists before `ffi_tramp_init` has decided (`Decided`). The refinement maps the
step that finds a trampoline to the pool's allocation, the one that sets its
parameters to binding it, the one that returns it to giving it back, and all
others to stutters.

`RawSlots_proof` proves `ArgumentsAlwaysArrive` and `ResultsAlwaysArrive`, for any
number of parameters, any integers and any size of a byte, wherever the types of
the functions in use fit into a slot (`Narrow`), and `WideMachines`: on 64-bit
machines all do. First it shows that cutting a pattern twice is cutting it once
(`CutTwice`), so that the way through 64 bits and a word loses nothing that C's
conversion would have kept; then that each case of `readValue` and `wrapValue` is
that conversion; then that the walk by sizes and the index of `node_ffi.cc` find
the same slot (`StartIs`, `FlattenSingles`). The last two speak of functions
defined by recursion on a position; each is shown to have the explicit function
as a solution and, by the smallest position at which they would differ, as the
only one.

`ExecFile_proof` proves `NoSharedPages` (`SegmentsDisjoint`), `NeverCutShort`
(`SegmentsInFile`) and `TypeCorrect` for every list of places, so also for
platforms without mounts files. The strengthening says where
`execsize` stands: behind every segment (`Behind`), not beyond the end of the
file, and not beyond the offset at which the next call writes (`Grown`). The
second half of `Grown` is needed because the offset is never moved back.

`Options_proof` proves what the runs check of `NodeOptions`, `EnvLexer` and
`CliOptions`, but for liveness. It extends all three, so the last two begin the
names that `NodeOptions` has too with `Lex` and `Cli`.

Of `NodeOptions`: `EnvironmentConfined` (`EnvvarConfined`), `ImpliedInTheEnd`
(`Implied`), `InspectorIsSettled`, `SecureHeapIsSane`, `ProfilesArePlaced` and
`SchemaIsAccepted`, for any set of starts: any variables, any number of words, in
whatever order, in `NODE_OPTIONS` and on the command line. Three layers. The
lowest says what the table has: one short formula each for options (`Told`),
aliases (`AliasTold`) and implications (`ImplicationTold`), proved over all
entries; what is above it speaks of the table by these alone (`BarredFields`
looks up one option more). The second says what a word leaves
in a field (`OnlyByName`, `SwitchStep`, `ImpliedStep`) and what `CheckOptions`
leaves there (`CheckedFields`). The third is the inductive invariant `Known`. The
properties speak of a process that has started, and say nothing of the words in
between, so none of them is inductive. `Known` consists of

* `Types`: the types, and where the parser may be in which phase;
* `Confined`: in the first pass no field of a barred option is written but that of
  the certificates' store, which also is why nothing written by `NODE_OPTIONS`
  keeps a debugger away but `--watch`;
* `Sourced`: a word that waits is one of the start or comes out of an alias, and
  no alias has a negation or speaks of watching - without it, one could not
  tell from `Given` what was taken away;
* `Following`: each implication holds already between two words, or its negation
  was given;
* `PortKept`: the host is never empty, and the port valid or an error recorded;
* `DebuggerKnown`: a debugger may attach until a `CheckOptions` of a process that
  was to watch;
* `Parsing`, for `ProfilesPlaced`: what the words not yet applied (`Unapplied`) will make
  of the fields of profiles and directories is what the whole list makes of their
  values at the beginning of the pass. It looks ahead, so that a step need only
  move one word (`LastOfTail`); `FirstValue` is what the check between the
  passes leaves.

The last `CheckOptions` then settles the rest: it starts the process only where
it raised no error, and what that says of the fields is in one lemma per property
(`HeapSettled` to `ImplicationsSettled`). `SchemaIsAccepted` is about one word
alone; `LoneStages` follows that word through its alias, if it has one, to the
field it writes or the error it deserves.

Of `EnvLexer`: `NothingLost` (`TextKept`) and `WordsDoArrive` (`WordsArrive`), for
texts of any length over any set of ordinary characters and words of any number
and length, from `LexerAssumption`. Both relate a text to what `FlattenSeq` makes
of it. The prover has no induction over sequences, so `FlattenSeq` is shown to
be the last of the partial sums (`Sums`): they exist, as a least counterexample
shows (`SumsExist`), and any two agree (`SumsAgree`); from that follow
`FlattenAppend`, `FlattenCons` and `FlattenGrows`, which the rest uses.
`NothingLost` looks back: `CharsKept` says what of the text read so far is in the
words, `Paired` that whether the lexer is in a string is the parity of the quotes
it read. `WordsDoArrive` looks ahead: `Arriving` says that the text still to be
read is what the words still to come may look like (`BetweenWords`), behind the
rest of a bare word (`InBareWord`), or behind the rest of a quoted one and its
quote (`InQuotes`), and that no error was met. `FromBetween`, `FromWithin` and
`FromQuotes` show where one step leads from each.

Of `CliOptions`: `SwapsUndone` (`Restored`), `AnswersAlwaysExact` (`AnswersExact`),
`CliTypes` and `Implements` (`ImplementsService`) for every set of environments, every way
in which they share objects with one another and with the process, and every
number of calls; they rest on `ObjectsAssumption` only. `Restored` is not
inductive: it says nothing while the mutex is held. The invariant `CliInv` adds
`Holder` (who is past the mutex holds it), `Swaps` (what `per_isolate`, `per_env`
and the scope's members are at each place of the holder's call) and
`AnswerSeen` (what was read and is not told yet is the reader's answer). The case that needs
care is an environment whose isolate options are the process's own: then the
second swap changes what the first one's original points to, and only the reverse
order of the destructor puts both back. The refinement maps entering a call to
`Ask`, returning to `Tell`, and every other step to a stutter.

`BuiltinLoader_proof` proves all five properties of `BuiltinLoader`:
`LoadingExact` (`LoadingIsRunning`), `LoadedAtMostOnce` (`LoadedOnce`),
`KeysAlwaysComplete`, `SchemesAlwaysAgree` and `FlagsAlwaysNeeded`. `Stack` says that
the functions on the stack are those of the modules marked as loading, each once
and none loaded before, which also bounds the stack; `Flagged` that an
experimental or internal module which a program may require, or whose function
runs for the program, has its flag, however it came to be loaded. `KeysComplete`
is an action property: a step that takes names either ends the module's function
or finds it loaded, so with all its exports, or finds it running.

`Bindings_proof` proves `RegistriesAlwaysExact`, `BindingAlwaysConfined`,
`NearestAlwaysFound` and the action property `LinkedAlwaysStable`
(`LinkedStable`) for any tree of workers (`WorkersAssumption`: every environment
has a finite line of ancestors, of which `Chain` is one). `FlagsRight` is why
`FindModule`'s CHECK holds; `CacheNamed` ties the cache of `internalBinding` to
names, without which an allowed name could give another binding; `CallsInOrder`
relates the calls of one environment: only the innermost searches, their
initializers started one after the other, none later than the one whose object
is in the cache, and no search has passed the nearest list with its name
(`InReach`), since a list that has a name never loses it (`FoundStays`).

`AddonLoader_proof` proves `CountsAlwaysExact`, `ModulesAlwaysAlive`
and `SelfWaitsOnlyBySymbol` for any finite number of threads. `ModulesAlive` needs
`Quiet`, that the FFI opens no library which registers a module. The first half
counts: what a DLib that begins, goes on, ends, is closed or left open changes in
the numbers of those that have a library open or are counted by the handle map. In
the second half, `Works` says what the fields of a DLib mean at each step of
`DLOpen`, also that who will erase an entry it has not counted finds the count at
0; `Locks` that whoever is between the ScopedLock and its release, or will do
such an erasure, has the mutex; `Holder` that who has it works under it or waits
in a load which an initializer found by its symbol has asked for; `Alive` that a
module in the map is usable, or its library is closed, or the library has just
been opened and is about to register it again. `Locks` is what excludes two threads in that last situation.

Only model-checked: the liveness properties `InvokersReclaimed`, `CallsReturn` of
both modules and `EveryStartEnds`, as the prover handles neither fairness nor
ENABLED. Every invariant, action property and refinement that a passing run
checks is stated by a theorem; three of the addon loader's need the hypotheses
named above.

## 6. Not modelled

Java's raw API and libffi's `debug.c` (compiled out, or printing only); the Mach
branch tables of `closures.c` (`FFI_EXEC_TRAMPOLINE_TABLE` is not defined by
`fixed/fficonfig.h`); AIX's and Windows' variants of the addon loader; the
assembly stubs; the bins of `dlmalloc.c`; the empty `ffi_permission` files; the
build files. Of the options: `GetBashCompletion`, the help texts,
`MapEnvOptionsFlagInputType` and `GetEmbedderOptions`, which only read the table
or a field; the values behind the options' pointers, in `CliOptions`. Of the
bindings: what the legacy wrappers of `process.binding` return, and the templates
of each isolate. Of `FfiApi`:
results, views over memory, native threads. `components` in `PROJECT.json` gives
the reason for each.

## 7. Plan

In this order:

1. The rest of `node_ffi.cc`: views over memory (`CreateBuffer`, `readAddress` and
   who keeps the memory alive), results and exceptions of callbacks, and the
   letters of `FFIDefinition` as a pure function.
2. Call interfaces: `prep_cif.c` and the classification of `x86/ffi64.c`, as a
   module of which `RawSlots` is a part: values from slots to registers and the
   stack and back; then AArch64 and ARM. The run `raw_64` grows into it.
3. The segment list of `dlmalloc.c`, which `segment_holding` in `closures.c`
   reads without the allocator's lock, composed with `TrampTable`'s closures.
4. The Mach branch tables, for a build that defines them.
