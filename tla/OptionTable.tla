---------------------------- MODULE OptionTable ----------------------------
(***************************************************************************)
(* The table that the parsers of node_options.cc build when the process    *)
(* starts: the options with their types and whether NODE_OPTIONS may have  *)
(* them, the aliases, and the options that imply others. The build has the *)
(* inspector, OpenSSL 3, ICU and FFI, and no QUIC.                         *)
(***************************************************************************)
EXTENDS Integers, Sequences

\* A word of the command line: an option, maybe negated, maybe with a value
\* after an equals sign; or an argument, whose name is "argument". A text is a
\* sequence of words, numbers and punctuation.
Word(name, neg, eq, text) == [name |-> name, neg |-> neg, eq |-> eq, text |-> text]
Flag(name) == Word(name, FALSE, FALSE, <<>>)
Arg(text) == Word("argument", FALSE, FALSE, text)

Disallowed(type, names) == {[name |-> n, type |-> type, allowed |-> FALSE] : n \in names}
Allowed(type, names) == {[name |-> n, type |-> type, allowed |-> TRUE] : n \in names}

-----------------------------------------------------------------------------
DebugOptionsParser ==
  Allowed("kHostPort", {"--inspect-port"})
    \cup Allowed("kBoolean", {"--inspect", "--inspect-brk", "--inspect-wait"})
    \cup Disallowed("kBoolean", {"--debug", "--debug-brk", "--inspect-brk-node"})
    \cup Allowed("kString", {"--inspect-publish-uid"})

ModuleOptions ==
  Allowed("kStringList", {"--conditions", "--experimental-loader"})
    \cup Allowed("kBoolean",
         {"--experimental-detect-module", "--experimental-print-required-tla",
          "--experimental-require-module", "--disable-sigusr1",
          "--network-family-autoselection", "--enable-source-maps", "--entry-url",
          "--experimental-addon-modules", "--experimental-eventsource",
          "--experimental-websocket", "--experimental-sqlite",
          "--experimental-webstorage", "--experimental-global-navigator",
          "--experimental-wasm-modules", "--experimental-import-meta-resolve"})
    \cup Allowed("kString", {"--diagnostic-dir", "--dns-result-order", "--localstorage-file"})
    \cup Allowed("kUInteger", {"--network-family-autoselection-attempt-timeout"})
    \cup Allowed("kNoOp",
         {"--experimental-abortcontroller", "--experimental-fetch",
          "--experimental-global-customevent", "--experimental-quic",
          "--experimental-global-webcrypto", "--experimental-json-modules",
          "--experimental-modules"})

RuntimeOptions ==
  Allowed("kBoolean",
         {"--permission", "--allow-addons", "--allow-child-process", "--allow-wasi",
          "--allow-worker", "--experimental-ffi", "--allow-ffi",
          "--experimental-repl-await", "--experimental-vm-modules",
          "--async-context-frame", "--frozen-intrinsics", "--insecure-http-parser",
          "--deprecation", "--force-async-hooks-checks",
          "--force-node-api-uncaught-exceptions-policy", "--addons",
          "--global-search-paths", "--warnings", "--force-context-aware",
          "--pending-deprecation", "--preserve-symlinks", "--preserve-symlinks-main"})
    \cup Allowed("kStringList", {"--allow-fs-read", "--allow-fs-write", "--disable-warning"})
    \cup Allowed("kNoOp",
         {"--experimental-worker", "--experimental-report",
          "--experimental-wasi-unstable-preview1", "--http-parser",
          "--experimental-specifier-resolution"})
    \cup Allowed("kString", {"--heapsnapshot-signal", "--input-type"})
    \cup Allowed("kInteger", {"--heapsnapshot-near-heap-limit"})
    \cup Allowed("kV8Option", {"--expose-gc"})
    \cup Disallowed("kV8Option", {"--prof"})
    \cup Disallowed("kBoolean", {"--expose-internals", "--prof-process"})

ProfileOptions ==
  Allowed("kBoolean", {"--cpu-prof", "--heap-prof"})
    \cup Allowed("kString",
         {"--cpu-prof-name", "--cpu-prof-dir", "--heap-prof-name", "--heap-prof-dir",
          "--redirect-warnings"})
    \cup Allowed("kUInteger",
         {"--cpu-prof-interval", "--heap-prof-interval", "--max-http-header-size"})
    \cup Disallowed("kBoolean",
         {"--experimental-network-inspection", "[has_env_file_string]",
          "--experimental-default-config-file"})
    \cup Disallowed("kString",
         {"--env-file", "--env-file-if-exists", "--experimental-config-file"})

TestOptions ==
  Disallowed("kBoolean",
         {"--test", "--test-force-exit", "--test-update-snapshots",
          "--experimental-test-coverage", "--experimental-test-module-mocks",
          "--test-udp-no-try-send"})
    \cup Disallowed("kUInteger", {"--test-concurrency", "--test-timeout"})
    \cup Disallowed("kNoOp", {"--experimental-test-snapshots"})
    \cup Allowed("kUInteger",
         {"--test-coverage-branches", "--test-coverage-functions", "--test-coverage-lines"})
    \cup Allowed("kString", {"--test-isolation", "--test-shard"})
    \cup Allowed("kBoolean", {"--test-only"})
    \cup Allowed("kStringList",
         {"--test-name-pattern", "--test-reporter", "--test-reporter-destination",
          "--test-skip-pattern", "--test-coverage-include", "--test-coverage-exclude"})

TraceOptions ==
  Allowed("kBoolean",
         {"--throw-deprecation", "--trace-deprecation", "--trace-exit",
          "--trace-sync-io", "--trace-tls", "--trace-uncaught", "--trace-warnings",
          "--trace-promises", "--trace-env", "--trace-env-js-stack",
          "--trace-env-native-stack", "--extra-info-on-fatal-exception"})
    \cup Allowed("kString", {"--trace-require-module", "--unhandled-rejections"})

ScriptOptions ==
  Allowed("kBoolean",
         {"--verify-base-objects", "--watch", "--watch-preserve-output",
          "--experimental-strip-types", "--experimental-transform-types"})
    \cup Allowed("kStringList", {"--watch-path", "--require", "--import"})
    \cup Disallowed("kBoolean", {"--check", "[has_eval_string]", "--print", "--interactive"})
    \cup Disallowed("kString", {"--eval"})
    \cup Allowed("kNoOp", {"--napi-modules"})

TlsOptions ==
  Allowed("kString", {"--tls-keylog"})
    \cup Allowed("kBoolean",
         {"--tls-min-v1.0", "--tls-min-v1.1", "--tls-min-v1.2", "--tls-min-v1.3",
          "--tls-max-v1.2", "--tls-max-v1.3",
          "--report-exclude-env", "--report-exclude-network"})

EnvironmentOptionsParser ==
  UNION {ModuleOptions, RuntimeOptions, ProfileOptions, TestOptions, TraceOptions,
         ScriptOptions, TlsOptions, DebugOptionsParser}

PerIsolateOptionsParser ==
  Allowed("kBoolean",
         {"--track-heap-objects", "--report-uncaught-exception", "--report-on-signal",
          "--experimental-shadow-realm"})
    \cup Allowed("kV8Option",
         {"--abort-on-uncaught-exception", "--interpreted-frames-native-stack",
          "--max-old-space-size", "--max-semi-space-size", "--perf-basic-prof",
          "--perf-basic-prof-only-functions", "--perf-prof",
          "--perf-prof-unwinding-info", "--disallow-code-generation-from-strings",
          "--jitless", "--enable-etw-stack-walking"})
    \cup Allowed("kInteger", {"--stack-trace-limit"})
    \cup Allowed("kString", {"--report-signal"})
    \cup Allowed("kNoOp", {"--experimental-top-level-await"})
    \cup Disallowed("kV8Option", {"--harmony-shadow-realm"})
    \cup Disallowed("kBoolean", {"--build-snapshot"})
    \cup Disallowed("kString", {"--build-snapshot-config"})
    \cup EnvironmentOptionsParser

ProcessOptions ==
  Allowed("kString",
         {"--title", "--trace-event-categories", "--trace-event-file-pattern",
          "--disable-proto", "--snapshot-blob", "--report-dir", "--report-filename"})
    \cup Allowed("kInteger", {"--v8-pool-size"})
    \cup Allowed("kBoolean",
         {"--zero-fill-buffers", "--debug-arraybuffer-allocations", "--node-snapshot",
          "--report-compact", "--report-on-fatalerror"})
    \cup Disallowed("kStringList", {"--security-revert"})
    \cup Disallowed("kBoolean", {"--completion-bash", "--help", "--version", "--v8-options"})

CryptoOptions ==
  Allowed("kString", {"--icu-data-dir", "--openssl-config", "--tls-cipher-list", "--use-largepages"})
    \cup Allowed("kBoolean",
         {"--use-openssl-ca", "--use-system-ca", "--use-bundled-ca", "--enable-fips",
          "--force-fips", "--openssl-legacy-provider", "--openssl-shared-config",
          "--trace-sigint", "--disable-wasm-trap-handler"})
    \cup Allowed("kInteger", {"--secure-heap", "--secure-heap-min"})
    \cup Allowed("kNoOp", {"--node-memory-debug"})
    \cup Disallowed("kBoolean", {"[ssl_openssl_cert_store]"})
    \cup Disallowed("kString", {"--experimental-sea-config", "--run"})

\* The whole table, with the children's options inserted.
options_ == PerIsolateOptionsParser \cup ProcessOptions \cup CryptoOptions

OptionNames == {o.name : o \in options_}
OptionInfo == [n \in OptionNames |-> CHOOSE o \in options_ : o.name = n]

-----------------------------------------------------------------------------
\* An alias: it stands for to where it is found in the form "name", "=" (with a
\* value after an equals sign) or "<arg>" (with an argument behind it).
AddAlias(from, form, to) == [from |-> from, form |-> form, to |-> to]

DebugAliases ==
  {AddAlias("--debug-port", "name", <<Flag("--inspect-port")>>),
   AddAlias("--debug", "=", <<Flag("--debug")>>),
   AddAlias("--debug-brk", "=", <<Flag("--debug-brk")>>)}
    \cup {AddAlias(name, "=", <<Flag("--inspect-port"), Flag(name)>>) :
            name \in {"--inspect", "--inspect-brk", "--inspect-brk-node", "--inspect-wait"}}

EnvironmentAliases ==
  {AddAlias(names[1], "name", <<Flag(names[2])>>) : names \in
     {<<"-C", "--conditions">>,
      <<"--enable-network-family-autoselection", "--network-family-autoselection">>,
      <<"--loader", "--experimental-loader">>,
      <<"--es-module-specifier-resolution", "--experimental-specifier-resolution">>,
      <<"--experimental-test-isolation", "--test-isolation">>,
      <<"-c", "--check">>, <<"-e", "--eval">>, <<"-p", "--print">>,
      <<"-r", "--require">>, <<"-i", "--interactive">>}}
    \cup {AddAlias("--prof-process", "name", <<Flag("--prof-process"), Flag("--")>>)}

\* Mutant: -pe stands for --print alone.
PrintOnly ==
  {AddAlias("--print", "<arg>", <<Flag("-pe")>>), AddAlias("-pe", "name", <<Flag("--print")>>)}

PrintAliases ==
  {AddAlias("--print", "<arg>", <<Flag("-pe")>>),
   AddAlias("-pe", "name", <<Flag("--print"), Flag("--eval")>>)}

ProcessAliases ==
  {AddAlias(names[1], "name", <<Flag(names[2])>>) : names \in
     {<<"--security-reverts", "--security-revert">>, <<"-h", "--help">>,
      <<"-v", "--version">>, <<"--report-directory", "--report-dir">>}}
    \cup {AddAlias("--trace-events-enabled", "name",
            <<Flag("--trace-event-categories"), Arg(<<"v8,node,node.async_hooks">>)>>)}

aliases_ == UNION {DebugAliases, EnvironmentAliases, PrintAliases, ProcessAliases}

-----------------------------------------------------------------------------
\* What giving from, negated or not, does to another option.
Implication(from, neg, to, value) == [from |-> from, neg |-> neg, to |-> to, value |-> value]

\* Mutant: the implied option is switched off.
ImpliesOff(from, to) == Implication(from, FALSE, to, FALSE)

Implies(from, to) == Implication(from, FALSE, to, TRUE)

\* Mutant: an option that excludes another switches it on.
ImpliesToo(from, neg, to) == Implication(from, neg, to, TRUE)

ImpliesNot(from, neg, to) == Implication(from, neg, to, FALSE)

\* Mutant: --inspect-wait does not switch the inspector on.
BreakImplications ==
  {Implies(name, "--inspect") : name \in {"--inspect-brk", "--inspect-brk-node"}}

DebugImplications ==
  {Implies(name, "--inspect") : name \in {"--inspect-brk", "--inspect-brk-node", "--inspect-wait"}}

EnvironmentImplications ==
  {Implies("--env-file", "[has_env_file_string]"),
   Implies("--env-file-if-exists", "[has_env_file_string]"),
   Implies("--trace-env-js-stack", "--trace-env"),
   Implies("--trace-env-native-stack", "--trace-env"),
   Implies("--watch-path", "--watch"),
   Implies("--eval", "[has_eval_string]"),
   Implies("--experimental-transform-types", "--experimental-strip-types"),
   Implies("--experimental-transform-types", "--enable-source-maps")}

IsolateImplications ==
  {Implies("--report-signal", "--report-on-signal"),
   Implies("--experimental-shadow-realm", "--harmony-shadow-realm"),
   Implies("--harmony-shadow-realm", "--experimental-shadow-realm"),
   ImpliesNot("--harmony-shadow-realm", TRUE, "--experimental-shadow-realm"),
   Implies("--build-snapshot-config", "--build-snapshot")}

ProcessImplications ==
  {Implies("--use-openssl-ca", "[ssl_openssl_cert_store]"),
   ImpliesNot("--use-bundled-ca", FALSE, "[ssl_openssl_cert_store]"),
   Implies("--node-memory-debug", "--debug-arraybuffer-allocations"),
   Implies("--node-memory-debug", "--verify-base-objects")}

implications_ ==
  UNION {DebugImplications, EnvironmentImplications, IsolateImplications, ProcessImplications}
=============================================================================
