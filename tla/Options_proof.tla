---------------------------- MODULE Options_proof ----------------------------
(***************************************************************************)
(* What is proved of the options, for every start of a process that        *)
(* NodeOptions allows, every text of NODE_OPTIONS and every set of         *)
(* environments.                                                           *)
(*                                                                         *)
(* NodeOptions. First what the table says of each option, alias and        *)
(* implication, then what a word leaves in a field; these two are all that *)
(* the rest knows of the table. The inductive invariant is Known; that of  *)
(* SchemaAccepted, about a start with one word, is LoneStages.             *)
(*                                                                         *)
(* EnvLexer. What FlattenSeq computes comes first. TextKept follows from   *)
(* an inductive invariant about the text read so far (CharsKept) and the   *)
(* parity of its quotes (Paired); WordsArrive from one about the text      *)
(* still to be read (Arriving).                                            *)
(*                                                                         *)
(* CliOptions. The inductive invariant CliInv says what the pointers are   *)
(* at each place of the call that holds the mutex: nobody else touches     *)
(* them.                                                                   *)
(***************************************************************************)
EXTENDS NodeOptions, EnvLexer, CliOptions, TLAPS, NaturalsInduction, WellFoundedInduction,
        FiniteSetTheorems, SequenceTheorems

-----------------------------------------------------------------------------
(***************************************************************************)
(* NodeOptions: what the table of options says.                            *)
(***************************************************************************)

\* The options that NODE_OPTIONS may not have, by name.
Barred ==
  {"--debug", "--debug-brk", "--inspect-brk-node", "--prof", "--expose-internals",
   "--prof-process", "--experimental-network-inspection", "[has_env_file_string]",
   "--experimental-default-config-file", "--env-file", "--env-file-if-exists",
   "--experimental-config-file", "--test", "--test-force-exit", "--test-update-snapshots",
   "--experimental-test-coverage", "--experimental-test-module-mocks",
   "--test-udp-no-try-send", "--test-concurrency", "--test-timeout",
   "--experimental-test-snapshots", "--check", "[has_eval_string]", "--print",
   "--interactive", "--eval", "--harmony-shadow-realm", "--build-snapshot",
   "--build-snapshot-config", "--security-revert", "--completion-bash", "--help",
   "--version", "--v8-options", "[ssl_openssl_cert_store]", "--experimental-sea-config",
   "--run"}

\* Those that have no field.
Fieldless ==
  {"--experimental-abortcontroller", "--experimental-fetch",
   "--experimental-global-customevent", "--experimental-quic",
   "--experimental-global-webcrypto", "--experimental-json-modules",
   "--experimental-modules", "--experimental-worker", "--experimental-report",
   "--experimental-wasi-unstable-preview1", "--http-parser",
   "--experimental-specifier-resolution", "--expose-gc", "--prof",
   "--experimental-test-snapshots", "--napi-modules", "--abort-on-uncaught-exception",
   "--interpreted-frames-native-stack", "--max-old-space-size", "--max-semi-space-size",
   "--perf-basic-prof", "--perf-basic-prof-only-functions", "--perf-prof",
   "--perf-prof-unwinding-info", "--disallow-code-generation-from-strings", "--jitless",
   "--enable-etw-stack-walking", "--experimental-top-level-await",
   "--harmony-shadow-realm", "--node-memory-debug"}

\* The options that are on or off, of those that are spoken of below.
Switches ==
  {"--inspect", "--inspect-brk", "--inspect-brk-node", "--inspect-wait", "--debug", "--debug-brk",
   "--watch", "--check", "--test", "--enable-source-maps", "--experimental-transform-types",
   "--use-openssl-ca", "--use-bundled-ca", "--cpu-prof", "--heap-prof",
   "--pending-deprecation", "--preserve-symlinks", "--preserve-symlinks-main",
   "[has_eval_string]", "[ssl_openssl_cert_store]"}

\* Those whose value is a text.
Strings ==
  {"--eval", "--cpu-prof-name", "--cpu-prof-dir", "--heap-prof-name", "--heap-prof-dir",
   "--diagnostic-dir", "--redirect-warnings", "--test-isolation", "--inspect-publish-uid"}

\* Names that no option has.
Nobody ==
  {"argument", "--", "--debug-port", "-C", "--enable-network-family-autoselection", "--loader",
   "--es-module-specifier-resolution", "--experimental-test-isolation", "-c", "-e", "-p",
   "-r", "-i", "-pe", "--security-reverts", "-h", "-v", "--report-directory",
   "--trace-events-enabled", "inspect_publish_uid", "allow_attaching_debugger"}

\* Fields that start with a value of their own.
DefaultNames ==
  {"--inspect-publish-uid", "--inspect-port", "allow_attaching_debugger", "inspect_publish_uid",
   "--experimental-detect-module", "--experimental-require-module",
   "--network-family-autoselection", "--experimental-websocket", "--experimental-sqlite",
   "--experimental-global-navigator", "--experimental-repl-await", "--deprecation",
   "--force-async-hooks-checks", "--addons", "--global-search-paths", "--warnings",
   "--extra-info-on-fatal-exception", "--experimental-strip-types", "--test-isolation",
   "--network-family-autoselection-attempt-timeout", "--max-http-header-size",
   "--cpu-prof-interval", "--heap-prof-interval", "--stack-trace-limit", "--report-signal",
   "--node-snapshot", "--v8-pool-size", "--secure-heap-min", "--use-largepages",
   "--tls-cipher-list", "--trace-event-file-pattern"}

\* What the table says of the option o.
Told(o) ==
  /\ o.type \in {"kNoOp", "kV8Option", "kBoolean", "kInteger", "kUInteger", "kString", "kHostPort",
                 "kStringList"}
  /\ o.allowed <=> o.name \notin Barred
  /\ o.type \in {"kNoOp", "kV8Option"} <=> o.name \in Fieldless
  /\ o.name \in Switches => o.type = "kBoolean"
  /\ o.name \in Strings => o.type = "kString"
  /\ o.name = "--watch-path" => o.type = "kStringList"
  /\ o.name \in {"--secure-heap", "--secure-heap-min"} => o.type = "kInteger"
  /\ o.name = "--inspect-port" <=> o.type = "kHostPort"
  /\ o.type = "kStringList" => o.name \notin DefaultNames
  /\ o.name \notin Nobody

\* Every entry of the table is as Told says.
LEMMA OptionsTold == \A o \in options_ : Told(o)
<1> USE DEF Told, Allowed, Disallowed, Barred, Fieldless, Switches, Strings, Nobody, DefaultNames
<1>1. \A o \in DebugOptionsParser : Told(o)
  BY DEF DebugOptionsParser
<1>2. \A o \in ModuleOptions : Told(o)
  BY DEF ModuleOptions
<1>3. \A o \in RuntimeOptions : Told(o)
  BY DEF RuntimeOptions
<1>4. \A o \in ProfileOptions : Told(o)
  BY DEF ProfileOptions
<1>5. \A o \in TestOptions : Told(o)
  BY DEF TestOptions
<1>6. \A o \in TraceOptions : Told(o)
  BY DEF TraceOptions
<1>7. \A o \in ScriptOptions : Told(o)
  BY DEF ScriptOptions
<1>8. \A o \in TlsOptions : Told(o)
  BY DEF TlsOptions
<1>9. \A o \in PerIsolateOptionsParser \ EnvironmentOptionsParser : Told(o)
  BY DEF PerIsolateOptionsParser
<1>10. \A o \in ProcessOptions : Told(o)
  BY DEF ProcessOptions
<1>11. \A o \in CryptoOptions : Told(o)
  BY DEF CryptoOptions
<1> HIDE DEF Told
<1>12. \A o \in EnvironmentOptionsParser : Told(o)
  BY <1>1, <1>2, <1>3, <1>4, <1>5, <1>6, <1>7, <1>8 DEF EnvironmentOptionsParser
<1> QED
  BY <1>9, <1>10, <1>11, <1>12 DEF options_

\* The options that are spoken of below, as the table has them.
LEMMA NamesThere ==
  Switches \cup Strings \cup {"--watch-path", "--secure-heap", "--secure-heap-min", "--inspect-port"}
    \subseteq OptionNames
<1> DEFINE Option(n, t, a) == [name |-> n, type |-> t, allowed |-> a]
<1> USE DEF Allowed, Disallowed
<1>1. /\ \A n \in {"--inspect", "--inspect-brk", "--inspect-wait"} :
           Option(n, "kBoolean", TRUE) \in DebugOptionsParser
      /\ \A n \in {"--inspect-brk-node", "--debug", "--debug-brk"} :
           Option(n, "kBoolean", FALSE) \in DebugOptionsParser
      /\ Option("--inspect-publish-uid", "kString", TRUE) \in DebugOptionsParser
      /\ Option("--inspect-port", "kHostPort", TRUE) \in DebugOptionsParser
  BY DEF DebugOptionsParser
<1>2. /\ Option("--enable-source-maps", "kBoolean", TRUE) \in ModuleOptions
      /\ Option("--diagnostic-dir", "kString", TRUE) \in ModuleOptions
  BY DEF ModuleOptions
<1>3. \A n \in {"--pending-deprecation", "--preserve-symlinks", "--preserve-symlinks-main"} :
        Option(n, "kBoolean", TRUE) \in RuntimeOptions
  BY DEF RuntimeOptions
<1>4. /\ \A n \in {"--cpu-prof", "--heap-prof"} : Option(n, "kBoolean", TRUE) \in ProfileOptions
      /\ \A n \in {"--cpu-prof-name", "--cpu-prof-dir", "--heap-prof-name", "--heap-prof-dir",
                   "--redirect-warnings"} : Option(n, "kString", TRUE) \in ProfileOptions
  BY DEF ProfileOptions
<1>5. /\ Option("--test", "kBoolean", FALSE) \in TestOptions
      /\ Option("--test-isolation", "kString", TRUE) \in TestOptions
  BY DEF TestOptions
<1>6. /\ \A n \in {"--watch", "--experimental-transform-types"} :
           Option(n, "kBoolean", TRUE) \in ScriptOptions
      /\ \A n \in {"--check", "[has_eval_string]"} : Option(n, "kBoolean", FALSE) \in ScriptOptions
      /\ Option("--watch-path", "kStringList", TRUE) \in ScriptOptions
      /\ Option("--eval", "kString", FALSE) \in ScriptOptions
  BY DEF ScriptOptions
<1>7. /\ \A n \in {"--use-openssl-ca", "--use-bundled-ca"} : Option(n, "kBoolean", TRUE) \in CryptoOptions
      /\ Option("[ssl_openssl_cert_store]", "kBoolean", FALSE) \in CryptoOptions
      /\ \A n \in {"--secure-heap", "--secure-heap-min"} : Option(n, "kInteger", TRUE) \in CryptoOptions
  BY DEF CryptoOptions
<1>8. UNION {DebugOptionsParser, ModuleOptions, RuntimeOptions, ProfileOptions, TestOptions,
             ScriptOptions, CryptoOptions} \subseteq options_
  BY DEF options_, PerIsolateOptionsParser, EnvironmentOptionsParser
<1>9. \A n, t, a : Option(n, t, a) \in options_ => n \in OptionNames
  BY DEF OptionNames
<1> HIDE DEF Option, Allowed, Disallowed
<1>10. Switches \subseteq OptionNames
  BY <1>1, <1>2, <1>3, <1>4, <1>5, <1>6, <1>7, <1>8, <1>9 DEF Switches
<1>11. Strings \subseteq OptionNames
  BY <1>1, <1>2, <1>4, <1>5, <1>6, <1>8, <1>9 DEF Strings
<1> QED
  BY <1>1, <1>6, <1>7, <1>8, <1>9, <1>10, <1>11

\* The entry that OptionInfo has for a name is one of the table.
LEMMA InfoTold ==
  ASSUME NEW name \in OptionNames
  PROVE  OptionInfo[name] \in options_ /\ OptionInfo[name].name = name /\ Told(OptionInfo[name])
<1>1. PICK o \in options_ : o.name = name
  BY DEF OptionNames
<1>2. OptionInfo[name] = CHOOSE p \in options_ : p.name = name
  BY DEF OptionInfo
<1>3. OptionInfo[name] \in options_ /\ OptionInfo[name].name = name
  BY <1>1, <1>2
<1> QED
  BY <1>3, OptionsTold

\* What NODE_OPTIONS may have is what the table allows, whichever entry is read.
LEMMA AllowedNames == {o.name : o \in {p \in options_ : p.allowed}} = OptionNames \ Barred
BY OptionsTold DEF Told, OptionNames

\* Nothing else starts with one, and these are the ones that are spoken of.
LEMMA DefaultsAre ==
  /\ DOMAIN Defaults = DefaultNames
  /\ Defaults["--inspect-port"] = [host |-> <<"127.0.0.1">>, port |-> 9229]
  /\ Defaults["allow_attaching_debugger"] = TRUE
  /\ Defaults["--secure-heap-min"] = 2
<1>1. /\ DOMAIN DebugDefaults = {"--inspect-publish-uid", "--inspect-port", "allow_attaching_debugger",
                               "inspect_publish_uid"}
      /\ DebugDefaults["--inspect-port"] = [host |-> <<"127.0.0.1">>, port |-> 9229]
      /\ DebugDefaults["allow_attaching_debugger"] = TRUE
  BY DEF DebugDefaults, :>, @@
<1>2. DOMAIN EnvironmentDefaults =
        {"--experimental-detect-module", "--experimental-require-module",
         "--network-family-autoselection", "--experimental-websocket", "--experimental-sqlite",
         "--experimental-global-navigator", "--experimental-repl-await", "--deprecation",
         "--force-async-hooks-checks", "--addons", "--global-search-paths", "--warnings",
         "--extra-info-on-fatal-exception", "--experimental-strip-types", "--test-isolation",
         "--network-family-autoselection-attempt-timeout", "--max-http-header-size",
         "--cpu-prof-interval", "--heap-prof-interval"}
  BY DEF EnvironmentDefaults, :>, @@
<1>3. DOMAIN IsolateDefaults = {"--stack-trace-limit", "--report-signal"}
  BY DEF IsolateDefaults, :>, @@
<1>4. /\ DOMAIN ProcessDefaults =
           {"--node-snapshot", "--v8-pool-size", "--secure-heap-min", "--use-largepages",
            "--tls-cipher-list", "--trace-event-file-pattern"}
      /\ ProcessDefaults["--secure-heap-min"] = 2
  BY DEF ProcessDefaults, :>, @@
<1>5. DOMAIN Defaults = DOMAIN DebugDefaults \cup DOMAIN EnvironmentDefaults
                         \cup DOMAIN IsolateDefaults \cup DOMAIN ProcessDefaults
  BY DEF Defaults, @@
<1>6. DOMAIN Defaults = DefaultNames
  BY <1>1, <1>2, <1>3, <1>4, <1>5 DEF DefaultNames
<1>7. \A f \in DOMAIN DebugDefaults : Defaults[f] = DebugDefaults[f]
  BY DEF Defaults, @@
<1>8. ASSUME NEW f \in DOMAIN ProcessDefaults, f \notin DOMAIN DebugDefaults,
             f \notin DOMAIN EnvironmentDefaults, f \notin DOMAIN IsolateDefaults
      PROVE  Defaults[f] = ProcessDefaults[f]
  BY <1>8 DEF Defaults, @@
<1>9. Defaults["--secure-heap-min"] = 2
  BY <1>1, <1>2, <1>3, <1>4, <1>8
<1> QED
  BY <1>1, <1>6, <1>7, <1>9

\* The names that aliases lead to.
Tracked == {"argument", "--inspect", "--watch", "--watch-path", "--enable-source-maps"} \cup InternalNames

\* What the aliases have in common.
AliasTold(a) ==
  /\ a.to \in Seq(StartWords) /\ a.to # <<>>
  /\ a.to[1].name \notin Tracked
  /\ \A i \in DOMAIN a.to :
       ~a.to[i].neg /\ a.to[i].name \notin {"--watch", "--watch-path"}
  /\ a.from \in OptionNames \ Barred =>
       /\ a.form = "=" /\ a.from \in {"--inspect", "--inspect-brk", "--inspect-wait"}
       /\ a.to = <<Flag("--inspect-port"), Flag(a.from)>>

\* These are names of aliases and of the parser's own.
LEMMA NobodysNames == Nobody \cap OptionNames = {}
BY OptionsTold DEF Told, OptionNames

\* What an alias of a name that NODE_OPTIONS may not have stands for.
Leads(a) ==
  \E t \in Seq(Pieces) : \E n, m :
    /\ n \notin Tracked /\ m \notin InternalNames \cup {"--watch", "--watch-path"}
    /\ a.to \in {<<Flag(n)>>, <<Flag(n), Flag(m)>>, <<Flag(n), Arg(t)>>}

\* Every such alias leads to words that are of no tracked option.
LEMMA Expansions ==
  ASSUME NEW a \in aliases_, Leads(a)
  PROVE  /\ a.to \in Seq(StartWords) /\ a.to # <<>>
         /\ a.to[1].name \notin Tracked
         /\ \A i \in DOMAIN a.to :
              ~a.to[i].neg /\ a.to[i].name \notin {"--watch", "--watch-path"}
<1> PICK t \in Seq(Pieces) : \E n, m :
           /\ n \notin Tracked /\ m \notin InternalNames \cup {"--watch", "--watch-path"}
           /\ a.to \in {<<Flag(n)>>, <<Flag(n), Flag(m)>>, <<Flag(n), Arg(t)>>}
  BY DEF Leads
<1> PICK n, m :
           /\ n \notin Tracked /\ m \notin InternalNames \cup {"--watch", "--watch-path"}
           /\ a.to \in {<<Flag(n)>>, <<Flag(n), Flag(m)>>, <<Flag(n), Arg(t)>>}
  OBVIOUS
<1>1. \A i \in DOMAIN a.to : a.to[i].name \in Pieces
  BY PiecesAssumption
<1>2. \A k : k \in Pieces \ InternalNames => Flag(k) \in StartWords
  BY DEF Flag, Word, StartWords
<1>3. n \notin InternalNames \cup {"--watch", "--watch-path"}
  BY DEF Tracked
<1>4. /\ \A k : Flag(k).name = k /\ Flag(k).neg = FALSE
      /\ Arg(t).name = "argument" /\ Arg(t).neg = FALSE
  BY DEF Flag, Arg, Word
<1>5. CASE a.to = <<Flag(n)>>
  <2>1. DOMAIN a.to = {1} /\ a.to[1] = Flag(n)
    BY <1>5
  <2>2. Flag(n) \in StartWords
    BY <1>1, <1>2, <1>3, <1>4, <2>1
  <2> QED
    BY <1>3, <1>4, <1>5, <2>1, <2>2
<1>6. CASE a.to = <<Flag(n), Flag(m)>>
  <2>1. DOMAIN a.to = {1, 2} /\ a.to[1] = Flag(n) /\ a.to[2] = Flag(m)
    BY <1>6
  <2>2. Flag(n) \in StartWords /\ Flag(m) \in StartWords
    BY <1>1, <1>2, <1>3, <1>4, <2>1
  <2> HIDE DEF Flag
  <2> QED
    BY <1>3, <1>4, <1>6, <2>1, <2>2
<1>7. CASE a.to = <<Flag(n), Arg(t)>>
  <2>1. DOMAIN a.to = {1, 2} /\ a.to[1] = Flag(n) /\ a.to[2] = Arg(t)
    BY <1>7
  <2>2. "argument" \notin InternalNames
    BY DEF InternalNames
  <2>3. n \in Pieces /\ "argument" \in Pieces
    BY <1>1, <1>4, <2>1
  <2>4. Flag(n) \in StartWords /\ Arg(t) \in StartWords
    BY <1>2, <1>3, <2>2, <2>3 DEF Arg, Word, StartWords
  <2> QED
    BY <1>3, <1>4, <1>7, <2>1, <2>4
<1> QED
  BY <1>5, <1>6, <1>7

\* The texts that aliases bring with them.
LEMMA TextsThere == \A s \in {"file", "v8,node,node.async_hooks"} : <<s>> \in Seq(Pieces)
<1>1. {"file", "v8,node,node.async_hooks"} \subseteq Pieces
  BY PiecesAssumption
<1>2. ASSUME NEW S, NEW s \in S PROVE <<s>> \in Seq(S)
  OBVIOUS
<1> QED
  BY <1>1, <1>2

\* Every alias is as AliasTold says.
LEMMA AliasesTold == \A a \in aliases_ : AliasTold(a)
<1>1. ASSUME NEW a \in aliases_, a.from \in Nobody \cup Barred, Leads(a)
      PROVE  AliasTold(a)
  <2>1. a.from \notin OptionNames \ Barred
    BY <1>1, NobodysNames
  <2> QED
    BY <1>1, <2>1, Expansions DEF AliasTold
<1>2. ASSUME NEW a \in aliases_, NEW n, n \notin Tracked, a.to = <<Flag(n)>>
      PROVE  Leads(a)
  <2>1. <<>> \in Seq(Pieces) /\ "--" \notin InternalNames \cup {"--watch", "--watch-path"}
    BY DEF InternalNames
  <2> QED
    BY <1>2, <2>1 DEF Leads
<1>3. ASSUME NEW a \in aliases_, NEW n, n \notin Tracked,
             NEW m, m \notin InternalNames \cup {"--watch", "--watch-path"}, a.to = <<Flag(n), Flag(m)>>
      PROVE  Leads(a)
  <2>1. <<>> \in Seq(Pieces)
    OBVIOUS
  <2> QED
    BY <1>3, <2>1 DEF Leads
<1>8. ASSUME NEW a \in aliases_, NEW n, n \notin Tracked,
             NEW t \in Seq(Pieces), a.to = <<Flag(n), Arg(t)>>
      PROVE  Leads(a)
  <2>1. "--" \notin InternalNames \cup {"--watch", "--watch-path"}
    BY DEF InternalNames
  <2> QED
    BY <1>8, <2>1 DEF Leads
<1>4. ASSUME NEW a \in aliases_, a \in DebugAliases PROVE AliasTold(a)
  <2>1. ASSUME NEW n \in {"--inspect", "--inspect-brk", "--inspect-brk-node", "--inspect-wait"},
               a = AddAlias(n, "=", <<Flag("--inspect-port"), Flag(n)>>)
        PROVE  AliasTold(a)
    <3>1. "--inspect-port" \notin Tracked /\ n \notin InternalNames \cup {"--watch", "--watch-path"}
      BY DEF Tracked, InternalNames
    <3>2. a.from = n /\ a.form = "=" /\ a.to = <<Flag("--inspect-port"), Flag(n)>>
      BY <2>1 DEF AddAlias
    <3>3. Leads(a)
      BY <1>3, <3>1, <3>2
    <3>4. n \notin Barred => n \in {"--inspect", "--inspect-brk", "--inspect-wait"}
      BY DEF Barred
    <3> QED
      BY <3>2, <3>3, <3>4, Expansions DEF AliasTold
  <2>2. ASSUME a \in {AddAlias("--debug-port", "name", <<Flag("--inspect-port")>>),
                      AddAlias("--debug", "=", <<Flag("--debug")>>),
                      AddAlias("--debug-brk", "=", <<Flag("--debug-brk")>>)}
        PROVE  AliasTold(a)
    <3>1. \E n \in {"--inspect-port", "--debug", "--debug-brk"} : a.to = <<Flag(n)>>
      BY <2>2 DEF AddAlias
    <3>2. {"--inspect-port", "--debug", "--debug-brk"} \cap Tracked = {}
      BY DEF Tracked, InternalNames
    <3>3. a.from \in Nobody \cup Barred
      BY <2>2 DEF AddAlias, Nobody, Barred
    <3> QED
      BY <1>1, <1>2, <3>1, <3>2, <3>3
  <2> QED
    BY <1>4, <2>1, <2>2 DEF DebugAliases
<1>5. ASSUME NEW a \in aliases_, a \in EnvironmentAliases PROVE AliasTold(a)
  <2>1. ASSUME NEW names \in
                 {<<"-C", "--conditions">>,
                  <<"--enable-network-family-autoselection", "--network-family-autoselection">>,
                  <<"--loader", "--experimental-loader">>,
                  <<"--es-module-specifier-resolution", "--experimental-specifier-resolution">>,
                  <<"--experimental-test-isolation", "--test-isolation">>,
                  <<"-c", "--check">>, <<"-e", "--eval">>, <<"-p", "--print">>,
                  <<"-r", "--require">>, <<"-i", "--interactive">>},
               a = AddAlias(names[1], "name", <<Flag(names[2])>>)
        PROVE  AliasTold(a)
    <3>1. names[1] \in Nobody /\ names[2] \notin Tracked
      BY DEF Nobody, Tracked, InternalNames
    <3>2. a.from = names[1] /\ a.to = <<Flag(names[2])>>
      BY <2>1 DEF AddAlias
    <3> QED
      BY <1>1, <1>2, <3>1, <3>2
  <2>2. ASSUME a = AddAlias("--prof-process", "name", <<Flag("--prof-process"), Flag("--")>>)
        PROVE  AliasTold(a)
    <3>1. "--prof-process" \in Barred /\ "--prof-process" \notin Tracked
          /\ "--" \notin InternalNames \cup {"--watch", "--watch-path"}
      BY DEF Barred, Tracked, InternalNames
    <3>2. a.from = "--prof-process" /\ a.to = <<Flag("--prof-process"), Flag("--")>>
      BY <2>2 DEF AddAlias
    <3> QED
      BY <1>1, <1>3, <3>1, <3>2
  <2> QED
    BY <1>5, <2>1, <2>2 DEF EnvironmentAliases
<1>6. ASSUME NEW a \in aliases_, a \in PrintAliases PROVE AliasTold(a)
  <2>1. a.from \in Nobody \cup Barred
    BY <1>6 DEF PrintAliases, AddAlias, Nobody, Barred
  <2>2. a.to \in {<<Flag("-pe")>>, <<Flag("--print"), Flag("--eval")>>}
    BY <1>6 DEF PrintAliases, AddAlias
  <2>3. /\ "-pe" \notin Tracked /\ "--print" \notin Tracked
        /\ "--eval" \notin InternalNames \cup {"--watch", "--watch-path"}
    BY DEF Tracked, InternalNames
  <2> QED
    BY <1>1, <1>2, <1>3, <2>1, <2>2, <2>3
<1>7. ASSUME NEW a \in aliases_, a \in ProcessAliases PROVE AliasTold(a)
  <2>1. ASSUME NEW names \in
                 {<<"--security-reverts", "--security-revert">>, <<"-h", "--help">>,
                  <<"-v", "--version">>, <<"--report-directory", "--report-dir">>},
               a = AddAlias(names[1], "name", <<Flag(names[2])>>)
        PROVE  AliasTold(a)
    <3>1. names[1] \in Nobody /\ names[2] \notin Tracked
      BY DEF Nobody, Tracked, InternalNames
    <3>2. a.from = names[1] /\ a.to = <<Flag(names[2])>>
      BY <2>1 DEF AddAlias
    <3> QED
      BY <1>1, <1>2, <3>1, <3>2
  <2>2. ASSUME a = AddAlias("--trace-events-enabled", "name",
                     <<Flag("--trace-event-categories"), Arg(<<"v8,node,node.async_hooks">>)>>)
        PROVE  AliasTold(a)
    <3>1. "--trace-events-enabled" \in Nobody /\ "--trace-event-categories" \notin Tracked
          /\ "--" \notin InternalNames \cup {"--watch", "--watch-path"}
      BY DEF Nobody, Tracked, InternalNames
    <3>2. a.from = "--trace-events-enabled"
          /\ a.to = <<Flag("--trace-event-categories"), Arg(<<"v8,node,node.async_hooks">>)>>
      BY <2>2 DEF AddAlias
    <3>3. <<"v8,node,node.async_hooks">> \in Seq(Pieces)
      BY TextsThere
    <3>4. Leads(a)
      BY <1>8, <3>1, <3>2, <3>3
    <3> QED
      BY <1>1, <3>1, <3>2, <3>4
  <2> QED
    BY <1>7, <2>1, <2>2 DEF ProcessAliases
<1> QED
  BY <1>4, <1>5, <1>6, <1>7 DEF aliases_

\* Fields that no option implies, and those that CheckOptions writes.
Unimplied ==
  (Switches \ {"--inspect", "--watch", "--enable-source-maps", "[has_eval_string]",
               "[ssl_openssl_cert_store]"})
    \cup Strings \cup {"--watch-path", "--secure-heap", "--secure-heap-min", "--inspect-port"}
    \cup Nobody

\* What the table says of the implication i.
ImplicationTold(i) ==
  /\ i.value = TRUE \/ i.value = FALSE
  /\ i.to \notin Unimplied
  /\ i.to \in Barred =>
       i.from \in Barred \/ i.to \in {"[ssl_openssl_cert_store]", "--harmony-shadow-realm"}
  /\ i.to \in {"--inspect", "--enable-source-maps", "[has_eval_string]"} => i.value = TRUE
  /\ i.to = "--watch" => i.value = TRUE /\ i.from = "--watch-path" /\ i.neg = FALSE
  /\ i.to = "[ssl_openssl_cert_store]" =>
       \/ i.from = "--use-openssl-ca" /\ i.value = TRUE
       \/ i.from = "--use-bundled-ca" /\ i.value = FALSE

\* Every implication is as ImplicationTold says.
LEMMA ImplicationsTold == \A i \in implications_ : ImplicationTold(i)
<1> USE DEF ImplicationTold, Unimplied, Switches, Strings, Nobody, Barred,
            Implies, ImpliesNot, Implication
<1>1. \A i \in DebugImplications : ImplicationTold(i)
  BY DEF DebugImplications
<1>2. \A i \in EnvironmentImplications : ImplicationTold(i)
  BY DEF EnvironmentImplications
<1>3. \A i \in IsolateImplications : ImplicationTold(i)
  BY DEF IsolateImplications
<1>4. \A i \in ProcessImplications : ImplicationTold(i)
  BY DEF ProcessImplications
<1> HIDE DEF ImplicationTold
<1> QED
  BY <1>1, <1>2, <1>3, <1>4 DEF implications_

\* The implications that are spoken of below, as the table has them.
LEMMA ImplicationsThere ==
  /\ \A n \in {"--inspect-brk", "--inspect-brk-node", "--inspect-wait"} :
       Implication(n, FALSE, "--inspect", TRUE) \in implications_
  /\ Implication("--watch-path", FALSE, "--watch", TRUE) \in implications_
  /\ Implication("--eval", FALSE, "[has_eval_string]", TRUE) \in implications_
  /\ Implication("--experimental-transform-types", FALSE, "--enable-source-maps", TRUE) \in implications_
  /\ Implication("--use-openssl-ca", FALSE, "[ssl_openssl_cert_store]", TRUE) \in implications_
  /\ Implication("--use-bundled-ca", FALSE, "[ssl_openssl_cert_store]", FALSE) \in implications_
<1> USE DEF Implies, ImpliesNot
<1>1. \A n \in {"--inspect-brk", "--inspect-brk-node", "--inspect-wait"} :
       Implication(n, FALSE, "--inspect", TRUE) \in DebugImplications
  BY DEF DebugImplications
<1>2. /\ Implication("--watch-path", FALSE, "--watch", TRUE) \in EnvironmentImplications
      /\ Implication("--eval", FALSE, "[has_eval_string]", TRUE) \in EnvironmentImplications
      /\ Implication("--experimental-transform-types", FALSE, "--enable-source-maps", TRUE)
           \in EnvironmentImplications
  BY DEF EnvironmentImplications
<1>3. /\ Implication("--use-openssl-ca", FALSE, "[ssl_openssl_cert_store]", TRUE) \in ProcessImplications
      /\ Implication("--use-bundled-ca", FALSE, "[ssl_openssl_cert_store]", FALSE) \in ProcessImplications
  BY DEF ProcessImplications
<1> QED
  BY <1>1, <1>2, <1>3 DEF implications_

\* The types of the options that are spoken of below.
LEMMA TypesThere ==
  /\ \A n \in Switches : OptionInfo[n].type = "kBoolean"
  /\ \A n \in Strings : OptionInfo[n].type = "kString"
  /\ OptionInfo["--watch-path"].type = "kStringList"
  /\ OptionInfo["--secure-heap"].type = "kInteger" /\ OptionInfo["--secure-heap-min"].type = "kInteger"
  /\ OptionInfo["--inspect-port"].type = "kHostPort"
BY NamesThere, InfoTold DEF Told

-----------------------------------------------------------------------------
\* What the fields that are spoken of below are at first.
LEMMA InitialSwitches == \A f \in Switches : InitialValue(f) = FALSE
<1>1. Switches \cap DefaultNames = {}
  BY DEF Switches, DefaultNames
<1> SUFFICES ASSUME NEW f \in Switches PROVE InitialValue(f) = FALSE
  OBVIOUS
<1>2. OptionInfo[f].type = "kBoolean" /\ f \notin DOMAIN Defaults
  BY <1>1, TypesThere, DefaultsAre
<1> QED
  BY <1>2 DEF InitialValue

\* The texts, sizes and the port that are there before any word.
LEMMA Initially ==
  /\ \A f \in Strings \ {"--test-isolation", "--inspect-publish-uid"} : InitialValue(f) = <<>>
  /\ InitialValue("--watch-path") = <<>>
  /\ InitialValue("--secure-heap") = 0 /\ InitialValue("--secure-heap-min") = 2
  /\ InitialValue("--inspect-port") = [host |-> <<"127.0.0.1">>, port |-> 9229]
  /\ InitialValue("allow_attaching_debugger") = TRUE
<1>1. /\ (Strings \ {"--test-isolation", "--inspect-publish-uid"}) \cap DefaultNames = {}
      /\ "--watch-path" \notin DefaultNames /\ "--secure-heap" \notin DefaultNames
      /\ {"--secure-heap-min", "--inspect-port", "allow_attaching_debugger"} \subseteq DefaultNames
  BY DEF Strings, DefaultNames
<1> HIDE DEF Strings, DefaultNames
<1>3. \A f \in Strings \ {"--test-isolation", "--inspect-publish-uid"} : InitialValue(f) = <<>>
  <2> SUFFICES ASSUME NEW f \in Strings \ {"--test-isolation", "--inspect-publish-uid"}
               PROVE InitialValue(f) = <<>>
    OBVIOUS
  <2>1. OptionInfo[f].type = "kString" /\ f \notin DOMAIN Defaults
    BY <1>1, TypesThere, DefaultsAre
  <2> QED
    BY <2>1 DEF InitialValue
<1>4. InitialValue("--watch-path") = <<>> /\ InitialValue("--secure-heap") = 0
  BY <1>1, TypesThere, DefaultsAre DEF InitialValue
<1>5. /\ InitialValue("--secure-heap-min") = 2
      /\ InitialValue("--inspect-port") = [host |-> <<"127.0.0.1">>, port |-> 9229]
      /\ InitialValue("allow_attaching_debugger") = TRUE
  <2>1. {"--secure-heap-min", "--inspect-port", "allow_attaching_debugger"} \subseteq DOMAIN Defaults
    BY <1>1, DefaultsAre
  <2>2. \A f \in DOMAIN Defaults : InitialValue(f) = Defaults[f]
    BY DEF InitialValue
  <2> QED
    BY <2>1, <2>2, DefaultsAre
<1> QED
  BY <1>3, <1>4, <1>5

\* A list that was not written is empty.
LEMMA InitialLists ==
  ASSUME NEW f \in OptionNames, OptionInfo[f].type = "kStringList"
  PROVE  InitialValue(f) = <<>>
BY InfoTold, DefaultsAre DEF Told, InitialValue

\* A text starts with an integer, if only with 0.
LEMMA NumberIsInt == \A text : Number(text) \in Int
<1> SUFFICES ASSUME NEW text PROVE Number(text) \in Int
  OBVIOUS
<1> DEFINE found == {n \in Numbers : text # <<>> /\ Tlc!ToString(n) = text[1]}
<1>1. Numbers \subseteq Int
  BY DEF Numbers
<1>2. found \subseteq Numbers
  BY Zenon
<1>3. found # {} => (CHOOSE n \in found : TRUE) \in found
  BY Zenon
<1>4. found = {} => Number(text) = 0
  BY Zenon DEF Number
<1>5. Number(text) = 0 \/ Number(text) \in found
  BY <1>3, <1>4, Zenon DEF Number
<1> QED
  BY <1>1, <1>2, <1>5

\* What is in a field after a word: its own value, one that it implies, or what
\* was there.
LEMMA OwnWritten ==
  ASSUME NEW text, NEW f \in OwnFields(cur)
  PROVE  f \in DOMAIN Writes(cur, text) /\ Writes(cur, text)[f] = OwnValue(cur, text)
BY DEF Writes

\* A field that a word implies gets the value of one of its implications.
LEMMA ImpliedWritten ==
  ASSUME NEW text, NEW f \in ImpliedFields(cur), f \notin OwnFields(cur)
  PROVE  /\ f \in DOMAIN Writes(cur, text)
         /\ \E i \in ImpliedBy(cur) : i.to = f /\ Writes(cur, text)[f] = i.value
<1>1. \E i \in ImpliedBy(cur) : i.to = f
  BY DEF ImpliedFields
<1>2. (CHOOSE i \in ImpliedBy(cur) : i.to = f) \in {i \in ImpliedBy(cur) : i.to = f}
  BY <1>1
<1> QED
  BY <1>2 DEF Writes, ImpliedValue

\* A field that is neither a word's own nor implied by it stays as it was.
LEMMA NotWritten ==
  ASSUME NEW text, NEW f, f \notin OwnFields(cur), f \notin ImpliedFields(cur)
  PROVE  /\ f \in DOMAIN Writes(cur, text) <=> f \in DOMAIN written
         /\ f \in DOMAIN written => Writes(cur, text)[f] = written[f]
         /\ Lookup(Writes(cur, text), f) = Lookup(written, f)
<1>1. f \in DOMAIN Writes(cur, text) <=> f \in DOMAIN written
  BY DEF Writes
<1>2. f \in DOMAIN written => Writes(cur, text)[f] = written[f]
  BY DEF Writes
<1> QED
  BY <1>1, <1>2 DEF Lookup

\* A word's own field has its name, but for --debug-brk.
LEMMA OwnNamed ==
  ASSUME NEW f \in OwnFields(cur)
  PROVE  /\ cur.name \in OptionNames /\ f = Field(cur.name)
         /\ OptionInfo[cur.name].type \notin {"kNoOp", "kV8Option"}
         /\ f = cur.name \/ (f = "--debug" /\ cur.name = "--debug-brk")
BY DEF OwnFields, Field, HasField

\* What is written to the field that has the word's name.
LEMMA NamedOwn ==
  /\ cur.name \in Switches \ {"--debug", "--debug-brk"} =>
       OwnFields(cur) = {cur.name} /\ \A text : OwnValue(cur, text) = ~cur.neg
  /\ cur.name \in Strings =>
       OwnFields(cur) = {cur.name} /\ \A text : OwnValue(cur, text) = text
  /\ cur.name = "--watch-path" =>
       /\ OwnFields(cur) = {cur.name}
       /\ \A text : OwnValue(cur, text) = Append(Lookup(written, "--watch-path"), text)
  /\ cur.name = "--inspect-port" =>
       /\ OwnFields(cur) = {cur.name}
       /\ \A text : OwnValue(cur, text) = Update(Lookup(written, "--inspect-port"), SplitHostPort(text))
<1>1. /\ "--debug-brk" \notin Strings
      /\ "--watch-path" # "--debug-brk" /\ "--inspect-port" # "--debug-brk"
  BY DEF Strings
<1>2. ASSUME cur.name \in Switches \ {"--debug", "--debug-brk"}
      PROVE  OwnFields(cur) = {cur.name} /\ \A text : OwnValue(cur, text) = ~cur.neg
  BY <1>2, NamesThere, TypesThere DEF OwnFields, OwnValue, Field, HasField
<1>3. ASSUME cur.name \in Strings
      PROVE  OwnFields(cur) = {cur.name} /\ \A text : OwnValue(cur, text) = text
  BY <1>1, <1>3, NamesThere, TypesThere DEF OwnFields, OwnValue, Field, HasField
<1>4. ASSUME cur.name = "--watch-path"
      PROVE  /\ OwnFields(cur) = {cur.name}
             /\ \A text : OwnValue(cur, text) = Append(Lookup(written, "--watch-path"), text)
  BY <1>4, NamesThere, TypesThere DEF OwnFields, OwnValue, Field, HasField
<1>5. ASSUME cur.name = "--inspect-port"
      PROVE  /\ OwnFields(cur) = {cur.name}
             /\ \A text : OwnValue(cur, text) = Update(Lookup(written, "--inspect-port"), SplitHostPort(text))
  BY <1>5, NamesThere, TypesThere DEF OwnFields, OwnValue, Field, HasField
<1> QED
  BY <1>2, <1>3, <1>4, <1>5

\* A field that a word implies is one of a switch, by an implication of the table.
LEMMA ImpliedTold ==
  ASSUME NEW f \in ImpliedFields(cur)
  PROVE  /\ OptionInfo[f].type = "kBoolean"
         /\ f \notin Unimplied
         /\ \A i \in ImpliedBy(cur) :
              i \in implications_ /\ ImplicationTold(i) /\ i.from = cur.name /\ i.neg = cur.neg
<1>1. \A i \in ImpliedBy(cur) :
        i \in implications_ /\ ImplicationTold(i) /\ i.from = cur.name /\ i.neg = cur.neg
  BY ImplicationsTold DEF ImpliedBy
<1>2. PICK i \in ImpliedBy(cur) : i.to = f /\ OptionInfo[f].type = "kBoolean"
  BY DEF ImpliedFields
<1> QED
  BY <1>1, <1>2 DEF ImplicationTold

\* An implication of the word's name writes the field that it names.
LEMMA Implying ==
  ASSUME NEW f \in Switches, NEW value, Implication(cur.name, cur.neg, f, value) \in implications_
  PROVE  f \in ImpliedFields(cur)
<1>1. Implication(cur.name, cur.neg, f, value) \in ImpliedBy(cur)
  BY DEF ImpliedBy, Implication
<1>2. Implication(cur.name, cur.neg, f, value).to = f
  BY DEF Implication
<1> QED
  BY <1>1, <1>2, TypesThere DEF ImpliedFields

\* What no word can imply, only the word of that name changes.
LEMMA OnlyByName ==
  ASSUME NEW text, NEW f \in Unimplied, f # "--debug", cur.name # f \/ f \in Nobody
  PROVE  /\ f \in DOMAIN Writes(cur, text) <=> f \in DOMAIN written
         /\ Lookup(Writes(cur, text), f) = Lookup(written, f)
<1>1. f \notin ImpliedFields(cur)
  BY ImpliedTold
<1>2. f \notin OwnFields(cur)
  BY OwnNamed, NobodysNames
<1> QED
  BY <1>1, <1>2, NotWritten

\* No field of an option that NODE_OPTIONS may not have is written by a word
\* that it may have, but for that of the store.
LEMMA BarredFields ==
  ASSUME NEW f \in (OwnFields(cur) \cup ImpliedFields(cur)) \cap Barred, cur.name \notin Barred
  PROVE  f = "[ssl_openssl_cert_store]"
<1>1. "--debug-brk" \in Barred
  BY DEF Barred
<1>2. f \in ImpliedFields(cur)
  BY <1>1, OwnNamed
<1>3. PICK i \in ImpliedBy(cur) : i.to = f
  BY <1>2 DEF ImpliedFields
<1>4. f \in {"[ssl_openssl_cert_store]", "--harmony-shadow-realm"}
  BY <1>2, <1>3, ImpliedTold DEF ImplicationTold
<1>5. [name |-> "--harmony-shadow-realm", type |-> "kV8Option", allowed |-> FALSE]
        \in PerIsolateOptionsParser
  BY DEF PerIsolateOptionsParser, Disallowed
<1>6. "--harmony-shadow-realm" \in OptionNames /\ "--harmony-shadow-realm" \in Fieldless
  BY <1>5 DEF OptionNames, options_, Fieldless
<1>7. OptionInfo["--harmony-shadow-realm"].type \in {"kNoOp", "kV8Option"}
  BY <1>6, InfoTold DEF Told
<1> QED
  BY <1>2, <1>4, <1>7, ImpliedTold

\* What TypeOK asks of the value of a field.
Typed(name, value) ==
  CASE OptionInfo[name].type = "kBoolean" -> value \in BOOLEAN
    [] OptionInfo[name].type = "kInteger" -> value \in Int
    [] OptionInfo[name].type = "kUInteger" -> value \in Nat
    [] OptionInfo[name].type = "kHostPort" -> DOMAIN value = {"host", "port"}
    [] OptionInfo[name].type = "kStringList" -> value \in Seq(Seq(Pieces))
    [] OTHER -> value \in Seq(Pieces)

\* Those of the fields that are no option's.
Settings == {"inspect_publish_uid", "allow_attaching_debugger"}

\* What TypeOK says of the fields.
FieldsTyped == \A name \in DOMAIN written \ Settings : Typed(name, written[name])

\* The words are words.
Worded == start \in Starts /\ args \in Seq(StartWords) /\ cur \in StartWords

\* The parser is at work in its phases and in no other, and a word that it
\* works on is no argument and follows no error.
Working ==
  /\ pc = "idle" <=> phase \in {"variables", "started", "failed"}
  /\ pc \in {"alias", "apply"} => cur.name # "argument" /\ errors = {}

\* The types, and where the parser may be.
Types == Worded /\ Working /\ TypeOK

\* The fields are a part of TypeOK.
LEMMA TypedFields == TypeOK => FieldsTyped
BY DEF TypeOK, FieldsTyped, Typed, Settings

\* They are what is left to show of TypeOK once place and phase are known.
LEMMA FieldsAreTyped ==
  ASSUME FieldsTyped', phase' \in {"variables", "env", "cmd", "started", "failed"},
         pc' \in {"idle", "loop", "alias", "apply", "over"}
  PROVE  TypeOK'
BY DEF TypeOK, FieldsTyped, Typed, Settings

\* Typed, case by case.
LEMMA TypedBy ==
  ASSUME NEW f, NEW value
  PROVE  /\ OptionInfo[f].type = "kBoolean" => (Typed(f, value) <=> value \in BOOLEAN)
         /\ OptionInfo[f].type = "kInteger" => (Typed(f, value) <=> value \in Int)
         /\ OptionInfo[f].type = "kUInteger" => (Typed(f, value) <=> value \in Nat)
         /\ OptionInfo[f].type = "kHostPort" => (Typed(f, value) <=> DOMAIN value = {"host", "port"})
         /\ OptionInfo[f].type = "kStringList" => (Typed(f, value) <=> value \in Seq(Seq(Pieces)))
         /\ OptionInfo[f].type = "kString" => (Typed(f, value) <=> value \in Seq(Pieces))
BY DEF Typed

\* What Lookup finds has the type of the option, for those that are spoken of.
LEMMA LookupTyped ==
  ASSUME FieldsTyped
  PROVE  /\ \A f \in Switches : Lookup(written, f) \in BOOLEAN
         /\ \A f \in Strings \ {"--test-isolation", "--inspect-publish-uid"} :
              Lookup(written, f) \in Seq(Pieces)
         /\ Lookup(written, "--secure-heap") \in Int /\ Lookup(written, "--secure-heap-min") \in Int
         /\ Lookup(written, "--watch-path") \in Seq(Seq(Pieces))
         /\ DOMAIN Lookup(written, "--inspect-port") = {"host", "port"}
<1>1. ASSUME NEW f \in OptionNames, Typed(f, InitialValue(f))
      PROVE  Typed(f, Lookup(written, f))
  <2>1. f \in DOMAIN written => Typed(f, written[f])
    BY NobodysNames DEF FieldsTyped, Settings, Nobody
  <2> QED
    BY <1>1, <2>1 DEF Lookup
<1>2. ASSUME NEW f \in Switches PROVE Lookup(written, f) \in BOOLEAN
  <2>1. f \in OptionNames /\ OptionInfo[f].type = "kBoolean" /\ InitialValue(f) \in BOOLEAN
    BY NamesThere, TypesThere, InitialSwitches
  <2> QED
    BY <1>1, <2>1, TypedBy
<1>3. ASSUME NEW f \in Strings \ {"--test-isolation", "--inspect-publish-uid"}
      PROVE  Lookup(written, f) \in Seq(Pieces)
  <2>1. f \in OptionNames /\ OptionInfo[f].type = "kString" /\ InitialValue(f) = <<>>
    BY NamesThere, TypesThere, Initially
  <2>2. InitialValue(f) \in Seq(Pieces)
    BY <2>1
  <2>3. Typed(f, InitialValue(f))
    BY <2>1, <2>2, TypedBy, Zenon
  <2>4. Typed(f, Lookup(written, f))
    BY <1>1, <2>1, <2>3
  <2> QED
    BY <2>1, <2>4, TypedBy
<1>4. Lookup(written, "--secure-heap") \in Int
  <2>1. /\ "--secure-heap" \in OptionNames /\ OptionInfo["--secure-heap"].type = "kInteger"
        /\ InitialValue("--secure-heap") = 0
    BY NamesThere, TypesThere, Initially
  <2> QED
    BY <1>1, <2>1, TypedBy
<1>5. Lookup(written, "--secure-heap-min") \in Int
  <2>1. /\ "--secure-heap-min" \in OptionNames /\ OptionInfo["--secure-heap-min"].type = "kInteger"
        /\ InitialValue("--secure-heap-min") = 2
    BY NamesThere, TypesThere, Initially
  <2> QED
    BY <1>1, <2>1, TypedBy
<1>6. Lookup(written, "--watch-path") \in Seq(Seq(Pieces))
  <2>1. "--watch-path" \in OptionNames /\ OptionInfo["--watch-path"].type = "kStringList"
    BY NamesThere, TypesThere
  <2>2. InitialValue("--watch-path") \in Seq(Seq(Pieces))
    <3>1. InitialValue("--watch-path") = <<>>
      BY Initially
    <3>2. \A S : <<>> \in Seq(S)
      OBVIOUS
    <3>3. <<>> \in Seq(Seq(Pieces))
      BY <3>2, Zenon
    <3> QED
      BY <3>1, <3>3, Zenon
  <2>3. Typed("--watch-path", Lookup(written, "--watch-path"))
    BY <1>1, <2>1, <2>2, TypedBy
  <2> QED
    BY <2>1, <2>3, TypedBy
<1>7. DOMAIN Lookup(written, "--inspect-port") = {"host", "port"}
  <2>1. "--inspect-port" \in OptionNames /\ OptionInfo["--inspect-port"].type = "kHostPort"
    BY NamesThere, TypesThere
  <2>2. DOMAIN InitialValue("--inspect-port") = {"host", "port"}
    BY Initially
  <2>3. Typed("--inspect-port", InitialValue("--inspect-port"))
    BY <2>1, <2>2, TypedBy
  <2>4. Typed("--inspect-port", Lookup(written, "--inspect-port"))
    BY <1>1, <2>1, <2>3
  <2> QED
    BY <2>1, <2>4, TypedBy
<1> QED
  BY <1>2, <1>3, <1>4, <1>5, <1>6, <1>7

\* The value of a word has the type of its option.
LEMMA OwnTyped ==
  ASSUME FieldsTyped, cur \in StartWords, NEW text \in Seq(Pieces), NEW f \in OwnFields(cur)
  PROVE  Typed(f, OwnValue(cur, text))
<1> DEFINE type == OptionInfo[cur.name].type
<1>1. /\ cur.name \in OptionNames /\ f = Field(cur.name) /\ type \notin {"kNoOp", "kV8Option"}
      /\ f = cur.name \/ (f = "--debug" /\ cur.name = "--debug-brk")
  BY OwnNamed
<1>2. type \in {"kBoolean", "kInteger", "kUInteger", "kString", "kHostPort", "kStringList"}
  BY <1>1, InfoTold DEF Told
<1>3. OptionInfo[f].type = type
  BY <1>1, TypesThere DEF Switches
<1>4. CASE type = "kBoolean"
  BY <1>3, <1>4 DEF Typed, OwnValue, StartWords
<1>5. CASE type = "kInteger"
  BY <1>3, <1>5, NumberIsInt DEF Typed, OwnValue
<1>6. CASE type = "kUInteger"
  <2>1. Number(text) % TwoTo64 \in Nat
    BY NumberIsInt, StartsAssumption
  <2> QED
    BY <1>3, <1>6, <2>1 DEF Typed, OwnValue
<1>7. CASE type = "kString"
  BY <1>3, <1>7 DEF Typed, OwnValue
<1>8. CASE type = "kHostPort"
  BY <1>3, <1>8 DEF Typed, OwnValue, Update
<1>9. CASE type = "kStringList"
  <2>1. f = cur.name /\ f \notin Settings
    BY <1>1, <1>9, TypesThere, NobodysNames DEF Switches, Settings, Nobody
  <2>2. Lookup(written, f) \in Seq(Seq(Pieces))
    <3>1. f \in OptionNames /\ OptionInfo[f].type = "kStringList" /\ InitialValue(f) = <<>>
      BY <1>1, <1>3, <1>9, <2>1, InitialLists
    <3>2. f \in DOMAIN written => Typed(f, written[f])
      BY <2>1 DEF FieldsTyped
    <3> QED
      BY <3>1, <3>2 DEF Lookup, Typed
  <2>3. OwnValue(cur, text) = Append(Lookup(written, f), text)
    BY <1>1, <1>9 DEF OwnValue
  <2> QED
    BY <1>3, <1>9, <2>2, <2>3 DEF Typed
<1> QED
  BY <1>2, <1>4, <1>5, <1>6, <1>7, <1>8, <1>9

\* A word leaves the fields typed.
LEMMA WritesTyped ==
  ASSUME FieldsTyped, cur \in StartWords, NEW text \in Seq(Pieces), written' = Writes(cur, text)
  PROVE  FieldsTyped'
<1> SUFFICES ASSUME NEW f \in DOMAIN Writes(cur, text) \ Settings
             PROVE  Typed(f, Writes(cur, text)[f])
  BY DEF FieldsTyped, Typed
<1>1. CASE f \in OwnFields(cur)
  BY <1>1, OwnTyped, OwnWritten
<1>2. CASE f \in ImpliedFields(cur) \ OwnFields(cur)
  <2>1. PICK i \in ImpliedBy(cur) : Writes(cur, text)[f] = i.value
    BY <1>2, ImpliedWritten
  <2>2. i.value \in BOOLEAN /\ OptionInfo[f].type = "kBoolean"
    BY <1>2, ImpliedTold DEF ImplicationTold
  <2> QED
    BY <2>1, <2>2 DEF Typed
<1>3. CASE f \notin OwnFields(cur) /\ f \notin ImpliedFields(cur)
  BY <1>3, NotWritten DEF FieldsTyped
<1> QED
  BY <1>1, <1>2, <1>3

\* The greater of two numbers is one of them.
LEMMA MaxOfTwo ==
  ASSUME NEW a \in Int, NEW b \in Int
  PROVE  Max({a, b}) \in {a, b} /\ Max({a, b}) >= a /\ Max({a, b}) >= b
<1>1. \E x \in {a, b} : \A y \in {a, b} : x >= y
  <2>1. CASE a >= b
    BY <2>1
  <2>2. CASE b >= a
    BY <2>2
  <2> QED
    BY <2>1, <2>2
<1>2. Max({a, b}) \in {a, b} /\ \A y \in {a, b} : Max({a, b}) >= y
  BY <1>1 DEF Max
<1> QED
  BY <1>2

\* And the least of three.
LEMMA MinOfThree ==
  ASSUME NEW a \in Int, NEW b \in Int, NEW c \in Int
  PROVE  /\ Min({a, b, c}) \in {a, b, c}
         /\ Min({a, b, c}) <= a /\ Min({a, b, c}) <= b /\ Min({a, b, c}) <= c
<1>1. \E x \in {a, b, c} : \A y \in {a, b, c} : x <= y
  <2>1. CASE a <= b /\ a <= c
    BY <2>1
  <2>2. CASE b <= a /\ b <= c
    BY <2>2
  <2>3. CASE c <= a /\ c <= b
    BY <2>3
  <2> QED
    BY <2>1, <2>2, <2>3
<1>2. Min({a, b, c}) \in {a, b, c} /\ \A y \in {a, b, c} : Min({a, b, c}) <= y
  BY <1>1 DEF Min
<1> QED
  BY <1>2

\* The minimum of the secure heap, as CheckOptions bounds it.
LEMMA HeapMinBounded ==
  ASSUME FieldsTyped, Lookup(written, "--secure-heap") >= 2
  PROVE  HeapMin(written) \in Int /\ 2 <= HeapMin(written)
         /\ HeapMin(written) <= Lookup(written, "--secure-heap") /\ HeapMin(written) <= IntMax
<1> DEFINE heap == Lookup(written, "--secure-heap")
           low == Min({heap, Lookup(written, "--secure-heap-min"), IntMax})
<1>1. heap \in Int /\ Lookup(written, "--secure-heap-min") \in Int /\ IntMax \in Int /\ IntMax >= 2
  BY LookupTyped, StartsAssumption
<1>2. low \in Int /\ low <= heap /\ low <= IntMax
  BY <1>1, MinOfThree
<1>3. HeapMin(written) = Max({2, low})
  BY DEF HeapMin
<1> HIDE DEF heap, low
<1>4. Max({2, low}) \in {2, low} /\ Max({2, low}) >= 2
  BY <1>2, MaxOfTwo
<1>5. heap >= 2
  BY DEF heap
<1> QED
  BY <1>1, <1>2, <1>3, <1>4, <1>5 DEF heap

-----------------------------------------------------------------------------
\* The fields that CheckOptions may write.
Checkable ==
  {"inspect_publish_uid", "allow_attaching_debugger", "--cpu-prof-dir", "--heap-prof-dir",
   "--secure-heap-min"}

\* CheckOptions writes the minimum of the secure heap only if there is a heap.
LEMMA SettledFields ==
  /\ Settled(written) \subseteq Checkable
  /\ Checkable \ {"--secure-heap-min"} \subseteq Settled(written)
  /\ "--secure-heap-min" \in Settled(written) <=> Lookup(written, "--secure-heap") >= 2
BY DEF Settled, Checkable, CpuProf, HeapProf

\* What CheckOptions leaves in a field.
LEMMA CheckedFields ==
  /\ DOMAIN Checked(written) = DOMAIN written \cup Settled(written)
  /\ Checked(written)["inspect_publish_uid"] = PublishUid(written)
  /\ Checked(written)["allow_attaching_debugger"] = Debugger(written)
  /\ Checked(written)["--cpu-prof-dir"] = ProfileDir(written, CpuProf)
  /\ Checked(written)["--heap-prof-dir"] = ProfileDir(written, HeapProf)
  /\ Lookup(written, "--secure-heap") >= 2 =>
       Checked(written)["--secure-heap-min"] = HeapMin(written)
  /\ \A f \in DOMAIN written \ Settled(written) : Checked(written)[f] = written[f]
<1> DEFINE Content(f) ==
      CASE f = "inspect_publish_uid" -> PublishUid(written)
        [] f = "allow_attaching_debugger" -> Debugger(written)
        [] f = CpuProf.dir -> ProfileDir(written, CpuProf)
        [] f = HeapProf.dir -> ProfileDir(written, HeapProf)
        [] f = "--secure-heap-min" /\ f \in Settled(written) -> HeapMin(written)
        [] f \notin Settled(written) -> written[f]
<1>1. Checked(written) = [f \in DOMAIN written \cup Settled(written) |-> Content(f)]
  BY DEF Checked
<1>2. CpuProf.dir = "--cpu-prof-dir" /\ HeapProf.dir = "--heap-prof-dir"
  BY DEF CpuProf, HeapProf
<1>3. {"inspect_publish_uid", "allow_attaching_debugger", "--cpu-prof-dir", "--heap-prof-dir"}
        \subseteq Settled(written)
  BY SettledFields DEF Checkable
<1>4. Content("inspect_publish_uid") = PublishUid(written)
  BY <1>2, <1>3
<1>5. Content("allow_attaching_debugger") = Debugger(written)
  BY <1>2, <1>3
<1>6. Content("--cpu-prof-dir") = ProfileDir(written, CpuProf)
  BY <1>2, <1>3
<1>7. Content("--heap-prof-dir") = ProfileDir(written, HeapProf)
  BY <1>2, <1>3
<1>8. "--secure-heap-min" \in Settled(written) => Content("--secure-heap-min") = HeapMin(written)
  BY <1>2
<1>9. \A f : f \notin Settled(written) => Content(f) = written[f]
  BY <1>2, <1>3
<1> HIDE DEF Content
<1>10. \A f \in DOMAIN written \cup Settled(written) : Checked(written)[f] = Content(f)
  BY <1>1
<1>11. DOMAIN Checked(written) = DOMAIN written \cup Settled(written)
  BY <1>1
<1> QED
  BY <1>3, <1>4, <1>5, <1>6, <1>7, <1>8, <1>9, <1>10, <1>11, SettledFields

\* CheckOptions leaves the other fields alone.
LEMMA CheckedKeeps ==
  ASSUME NEW f, f \notin Checkable
  PROVE  /\ f \in DOMAIN Checked(written) <=> f \in DOMAIN written
         /\ Lookup(Checked(written), f) = Lookup(written, f)
BY SettledFields, CheckedFields DEF Lookup

\* It leaves the fields typed.
LEMMA CheckedTyped ==
  ASSUME FieldsTyped, written' = Checked(written)
  PROVE  FieldsTyped'
<1> SUFFICES ASSUME NEW f \in DOMAIN Checked(written) \ Settings
             PROVE  Typed(f, Checked(written)[f])
  BY DEF FieldsTyped, Typed
<1>1. CASE f \in {"--cpu-prof-dir", "--heap-prof-dir"}
  <2>1. /\ Lookup(written, "--cpu-prof-dir") \in Seq(Pieces)
        /\ Lookup(written, "--heap-prof-dir") \in Seq(Pieces)
        /\ Lookup(written, "--diagnostic-dir") \in Seq(Pieces)
    BY LookupTyped DEF Strings
  <2>2. ProfileDir(written, CpuProf) \in Seq(Pieces) /\ ProfileDir(written, HeapProf) \in Seq(Pieces)
    BY <2>1 DEF ProfileDir, CpuProf, HeapProf
  <2>3. Checked(written)[f] \in Seq(Pieces)
    BY <1>1, <2>2, CheckedFields
  <2>4. OptionInfo[f].type = "kString"
    BY <1>1, TypesThere DEF Strings
  <2> QED
    BY <2>3, <2>4, TypedBy
<1>2. CASE f = "--secure-heap-min" /\ Lookup(written, "--secure-heap") >= 2
  BY <1>2, HeapMinBounded, CheckedFields, TypesThere, TypedBy
<1>3. CASE f \in DOMAIN written \ Settled(written)
  BY <1>3, CheckedFields DEF FieldsTyped
<1> QED
  BY <1>1, <1>2, <1>3, CheckedFields, SettledFields DEF Settings, Checkable

\* How a word may be applied: it is refused, or it writes.
Refused ==
  /\ pc' = "over" /\ \E m \in {"not allowed", "negation", "requires an argument"} : errors' = errors \cup {m}
  /\ UNCHANGED <<start, phase, args, cur, written, v8_args>>

\* Or it writes, takes the argument that it has, and a port may be refused.
Taken(text) ==
  /\ ~NotAllowed(cur.name)
  /\ cur.name \in OptionNames /\ cur.neg => OptionInfo[cur.name].type \in {"kBoolean", "kV8Option"}
  /\ written' = Writes(cur, text)
  /\ args' = args \/ (args # <<>> /\ args' = Tail(args))
  /\ errors' = IF cur.name = "--inspect-port" /\ SplitHostPort(text).error
               THEN errors \cup {"port"} ELSE errors
  /\ pc' = "loop" /\ UNCHANGED <<start, phase, cur>>

\* A word is refused or taken, with some text.
LEMMA ApplyCases ==
  ASSUME Worded, Apply
  PROVE  Refused \/ \E text \in Seq(Pieces) : Taken(text)
<1>1. \A w \in StartWords : w.text \in Seq(Pieces) /\ w.neg \in BOOLEAN
  BY DEF StartWords
<1>2. ASSUME RefuseInEnv \/ RefuseNegation PROVE Refused
  BY <1>2 DEF Apply, RefuseInEnv, RefuseNegation, Reject, Refused
<1>3. ASSUME ApplyFlag PROVE Taken(<<>>)
  <2>1. cur.name \in OptionNames => OptionInfo[cur.name].type \in {"kNoOp", "kV8Option", "kBoolean"}
    BY <1>3 DEF ApplyFlag, TakesValue, HasField
  <2> QED
    BY <1>3, <2>1 DEF Apply, ApplyFlag, Accept, Taken
<1>4. ASSUME ApplyValue, HasValue PROVE \E text \in Seq(Pieces) : Taken(text)
  <2>1. Value \in Seq(Pieces)
    BY <1>1, <1>4 DEF Value, HasValue, Worded
  <2>2. Taken(Value)
    BY <1>4 DEF Apply, ApplyValue, Accept, Taken, HasValue
  <2> QED
    BY <2>1, <2>2
<1>5. ASSUME ApplyValue, ~HasValue PROVE Refused
  BY <1>5 DEF Apply, ApplyValue, Reject, Refused
<1>6. <<>> \in Seq(Pieces)
  OBVIOUS
<1> QED
  BY <1>2, <1>3, <1>4, <1>5, <1>6 DEF Apply

\* How CheckOptions may end.
LEMMA CheckCases ==
  ASSUME CheckOptions
  PROVE  /\ pc = "over" /\ written' = Checked(written) /\ cur' = Idle /\ UNCHANGED <<start, v8_args>>
         /\ \/ /\ errors' = {} /\ phase = "env"
               /\ phase' = "cmd" /\ args' = start.cmd /\ pc' = "loop"
            \/ errors' = {} /\ phase # "env" /\ phase' = "started" /\ args' = args /\ pc' = "idle"
            \/ errors' # {} /\ phase' = "failed" /\ args' = args /\ pc' = "idle"
         /\ \E nofile \in BOOLEAN :
              /\ errors' = errors \cup ProcessErrors(written) \cup EnvironmentErrors(written, nofile)
              /\ args # <<>> => nofile = (Head(args) = Idle)
BY DEF CheckOptions

-----------------------------------------------------------------------------
\* Between two words the parser has a word that is no option.
LEMMA IdleWord == Idle \in StartWords /\ Idle.name = "argument" /\ Idle.neg = FALSE
<1>1. "argument" \notin InternalNames
  BY DEF InternalNames
<1>2. "argument" \in Pieces
  BY PiecesAssumption
<1> QED
  BY <1>1, <1>2 DEF Idle, Arg, Word, StartWords

\* The types hold at first.
LEMMA TypesInit == Init => Types
<1> SUFFICES ASSUME Init PROVE Types
  OBVIOUS
<1>1. Worded /\ Working
  BY IdleWord DEF Init, Worded, Working
<1>2. TypeOK
  BY DEF Init, TypeOK
<1> QED
  BY <1>1, <1>2 DEF Types

\* What the words of a start are.
LEMMA StartTold ==
  ASSUME start \in Starts
  PROVE  start.env \in Seq(StartWords) /\ start.cmd \in Seq(StartWords) /\ start.vars \subseteq Pieces
BY StartsAssumption

\* The variables of the environment write typed fields, none of them barred.
LEMMA VariablesTyped ==
  ASSUME HandleEnvOptions
  PROVE  FieldsTyped' /\ DOMAIN written' \cap Barred = {}
<1> DEFINE names == {"--pending-deprecation", "--preserve-symlinks", "--preserve-symlinks-main"}
<1>1. /\ DOMAIN written' = names \cup {"--redirect-warnings"}
      /\ \A n \in names : written'[n] \in BOOLEAN
      /\ written'["--redirect-warnings"] \in {<<"file">>, <<>>}
  BY DEF HandleEnvOptions, :>, @@
<1>2. <<"file">> \in Seq(Pieces) /\ <<>> \in Seq(Pieces)
  <2>1. <<"file">> \in Seq(Pieces)
    BY TextsThere
  <2>2. <<>> \in Seq(Pieces)
    OBVIOUS
  <2> QED
    BY <2>1, <2>2, Zenon
<1>3. names \subseteq Switches /\ "--redirect-warnings" \in Strings
  BY DEF Switches, Strings
<1>4. \A f \in DOMAIN written' : Typed(f, written'[f])
  <2>1. ASSUME NEW f \in names PROVE Typed(f, written'[f])
    BY <1>1, <1>3, TypesThere, TypedBy
  <2>2. written'["--redirect-warnings"] \in Seq(Pieces)
    BY <1>1, <1>2
  <2>3. OptionInfo["--redirect-warnings"].type = "kString"
    BY <1>3, TypesThere
  <2>4. Typed("--redirect-warnings", written'["--redirect-warnings"])
    BY <2>2, <2>3, TypedBy
  <2> QED
    BY <1>1, <2>1, <2>4
<1>5. DOMAIN written' \cap Barred = {}
  BY <1>1 DEF Barred
<1> QED
  BY <1>4, <1>5 DEF FieldsTyped, Typed

\* No step breaks the types.
LEMMA TypesNext == Types /\ [Next]_vars => Types'
<1> SUFFICES ASSUME Types, [Next]_vars PROVE Types'
  OBVIOUS
<1> USE DEF Types
<1>0. FieldsTyped
  BY TypedFields
<1>p. phase \in {"variables", "env", "cmd", "started", "failed"}
      /\ pc \in {"idle", "loop", "alias", "apply", "over"}
  BY DEF TypeOK
<1>1. CASE HandleEnvOptions
  <2>1. Worded' /\ Working'
    BY <1>1, StartTold DEF HandleEnvOptions, Worded, Working
  <2> QED
    BY <1>1, <2>1, VariablesTyped, FieldsAreTyped DEF HandleEnvOptions
<1>2. CASE PopFirst
  <2>1. Worded'
    <3>1. args \in Seq(StartWords) /\ args # <<>> /\ cur' = Head(args) /\ args' = Tail(args)
      BY <1>2 DEF PopFirst, Worded
    <3>2. Head(args) \in StartWords /\ Tail(args) \in Seq(StartWords)
      BY <3>1
    <3> QED
      BY <1>2, <3>1, <3>2 DEF PopFirst, Worded
  <2>2. Working'
    BY <1>2 DEF PopFirst, Working
  <2> QED
    BY <1>2, <2>1, <2>2 DEF PopFirst, TypeOK
<1>3. CASE EndOfOptions
  <2>1. Worded' /\ Working'
    BY <1>3 DEF EndOfOptions, Worded, Working
  <2> QED
    BY <1>3, <2>1 DEF EndOfOptions, TypeOK
<1>4. CASE ExpandAlias
  <2>1. ASSUME NEW alias \in aliases_,
               cur' = [cur EXCEPT !.name = alias.to[1].name], args' = Tail(alias.to) \o args
        PROVE  Worded' /\ cur'.name # "argument"
    <3>1. /\ alias.to \in Seq(StartWords) /\ alias.to # <<>> /\ alias.to[1].name \notin Tracked
      BY AliasesTold DEF AliasTold
    <3>2. alias.to[1] \in StartWords /\ Tail(alias.to) \in Seq(StartWords)
      BY <3>1
    <3>3. args' \in Seq(StartWords)
      BY <2>1, <3>2 DEF Worded
    <3>4. alias.to[1].name \in Pieces \ InternalNames /\ alias.to[1].name # "argument"
      BY <3>1, <3>2 DEF StartWords, Tracked
    <3>5. cur.name # "argument"
      BY <1>4 DEF ExpandAlias, Working
    <3>6. cur' \in StartWords /\ cur'.name # "argument"
      BY <2>1, <3>4, <3>5 DEF Worded, StartWords
    <3> QED
      BY <1>4, <3>3, <3>6 DEF ExpandAlias, Worded
  <2>2. Worded' /\ cur'.name # "argument"
    <3>1. CASE cur' = cur /\ args' = args
      BY <1>4, <3>1 DEF ExpandAlias, Worded, Working
    <3> QED
      BY <1>4, <2>1, <3>1 DEF ExpandAlias
  <2>3. Working'
    BY <1>4, <2>2 DEF ExpandAlias, Working, AfterExpansion
  <2> QED
    BY <1>4, <2>2, <2>3 DEF ExpandAlias, AfterExpansion, TypeOK
<1>5. CASE Apply
  <2>1. CASE Refused
    <3>1. Worded' /\ Working'
      BY <1>5, <2>1 DEF Refused, Apply, Worded, Working
    <3>2. TypeOK'
      BY <2>1 DEF Refused, TypeOK
    <3> QED
      BY <3>1, <3>2
  <2>2. ASSUME NEW text \in Seq(Pieces), Taken(text) PROVE Types'
    <3>1. Worded'
      <4>1. args \in Seq(StartWords) /\ (args' = args \/ (args # <<>> /\ args' = Tail(args)))
        BY <2>2 DEF Taken, Worded
      <4>2. args' \in Seq(StartWords)
        BY <4>1
      <4> QED
        BY <2>2, <4>2 DEF Taken, Worded
    <3>2. Working'
      BY <1>5, <1>p, <2>2 DEF Taken, Apply, Working
    <3> QED
      BY <1>0, <1>p, <2>2, <3>1, <3>2, WritesTyped, FieldsAreTyped DEF Taken, Worded
  <2> QED
    BY <1>5, <2>1, <2>2, ApplyCases
<1>6. CASE CheckOptions
  <2>1. Worded'
    BY <1>6, CheckCases, IdleWord, StartTold DEF Worded
  <2>2. Working'
    BY <1>6, <1>p, CheckCases DEF Working
  <2> QED
    BY <1>0, <1>6, <1>p, <2>1, <2>2, CheckCases, CheckedTyped, FieldsAreTyped
<1>7. CASE UNCHANGED vars
  BY <1>7 DEF vars, Worded, Working, TypeOK
<1> QED
  BY <1>1, <1>2, <1>3, <1>4, <1>5, <1>6, <1>7 DEF Next

\* Types: every field has a value of its option's type, in every phase of the
\* start, whatever the words of NODE_OPTIONS and of the command line.
THEOREM TypesHold == Spec => []Types
<1> QED
  BY TypesInit, TypesNext, PTL DEF Spec

\* In the first pass, nothing is written that NODE_OPTIONS may not have.
Confined == phase = "env" => DOMAIN written \cap Barred \subseteq {"[ssl_openssl_cert_store]"}

\* Nothing is written at first.
LEMMA ConfinedInit == Init => Confined
BY DEF Init, Confined

\* No step of the first pass writes a barred field, but that of the store.
LEMMA ConfinedNext == Types /\ Confined /\ [Next]_vars => Confined'
<1> SUFFICES ASSUME Types, Confined, [Next]_vars, phase' = "env"
             PROVE  DOMAIN written' \cap Barred \subseteq {"[ssl_openssl_cert_store]"}
  BY DEF Confined
<1>1. CASE HandleEnvOptions
  BY <1>1, VariablesTyped
<1>2. CASE PopFirst \/ EndOfOptions \/ ExpandAlias \/ UNCHANGED vars
  BY <1>2 DEF PopFirst, EndOfOptions, ExpandAlias, vars, Confined
<1>3. CASE Apply
  <2>1. CASE Refused
    BY <2>1 DEF Refused, Confined
  <2>2. ASSUME NEW text, Taken(text)
        PROVE  DOMAIN written' \cap Barred \subseteq {"[ssl_openssl_cert_store]"}
    <3>1. phase = "env" /\ ~NotAllowed(cur.name) /\ written' = Writes(cur, text)
      BY <2>2 DEF Taken
    <3>2. cur.name \notin Barred
      BY <3>1, AllowedNames DEF NotAllowed
    <3>3. DOMAIN written' \subseteq DOMAIN written \cup OwnFields(cur) \cup ImpliedFields(cur)
      BY <3>1 DEF Writes
    <3> QED
      BY <3>1, <3>2, <3>3, BarredFields DEF Confined
  <2> QED
    BY <1>3, <2>1, <2>2, ApplyCases DEF Types
<1>4. CASE CheckOptions
  BY <1>4, CheckCases
<1> QED
  BY <1>1, <1>2, <1>3, <1>4 DEF Next

\* NODE_OPTIONS changes no field of an option that it may not have, whatever its
\* words, by itself, by an alias or by an implication.
THEOREM EnvironmentConfined == Spec => []EnvvarConfined
<1>1. Types /\ Confined => EnvvarConfined
  <2> SUFFICES ASSUME Types, Confined, phase = "env", NEW name \in DOMAIN written \cap OptionNames
               PROVE  OptionInfo[name].allowed \/ name = "[ssl_openssl_cert_store]"
    BY DEF EnvvarConfined, Types
  <2> QED
    BY InfoTold DEF Told, Confined
<1> QED
  BY <1>1, TypesInit, TypesNext, ConfinedInit, ConfinedNext, PTL DEF Spec

\* What is known of a word that is not yet applied: where it comes from.
FromStart(w) ==
  /\ w.neg => Negated
  /\ w.neg /\ w.name \in {"--inspect", "--watch", "--enable-source-maps"} => Given(w.name, TRUE)
  /\ ~w.neg /\ w.name \in {"--watch", "--watch-path"} => Given(w.name, FALSE)

\* The word at hand and those that wait.
Sourced == FromStart(cur) /\ \A i \in DOMAIN args : FromStart(args[i])

\* The members of two sequences in a row.
LEMMA Concatenated ==
  ASSUME NEW S, NEW e \in Seq(S), NEW c \in Seq(S)
  PROVE  /\ \A i \in DOMAIN e : i \in DOMAIN (e \o c) /\ (e \o c)[i] = e[i]
         /\ \A i \in DOMAIN c : Len(e) + i \in DOMAIN (e \o c) /\ (e \o c)[Len(e) + i] = c[i]
<1>1. DOMAIN e = 1 .. Len(e) /\ DOMAIN c = 1 .. Len(c) /\ Len(e) \in Nat /\ Len(c) \in Nat
  OBVIOUS
<1>2. DOMAIN (e \o c) = 1 .. Len(e) + Len(c)
  OBVIOUS
<1>3. \A i \in 1 .. Len(e) + Len(c) : (e \o c)[i] = IF i <= Len(e) THEN e[i] ELSE c[i - Len(e)]
  OBVIOUS
<1> QED
  BY <1>1, <1>2, <1>3

\* Words has the words of NODE_OPTIONS and then those of the command line.
LEMMA WordsThere ==
  ASSUME start \in Starts
  PROVE  /\ \A i \in DOMAIN start.env : i \in DOMAIN Words /\ Words[i] = start.env[i]
         /\ \A i \in DOMAIN start.cmd :
              Len(start.env) + i \in DOMAIN Words /\ Words[Len(start.env) + i] = start.cmd[i]
<1>1. start.env \in Seq(StartWords) /\ start.cmd \in Seq(StartWords)
  BY StartTold
<1> HIDE DEF StartWords
<1>2. \A i \in DOMAIN start.env : i \in DOMAIN Words /\ Words[i] = start.env[i]
  BY <1>1, Concatenated, ZenonT(60) DEF Words
<1>3. ASSUME NEW i \in DOMAIN start.cmd
      PROVE  Len(start.env) + i \in DOMAIN Words /\ Words[Len(start.env) + i] = start.cmd[i]
  <2> DEFINE e == start.env
             c == start.cmd
  <2>e. e \in Seq(StartWords) /\ c \in Seq(StartWords)
    BY <1>1
  <2>w. Words = e \o c
    BY DEF Words
  <2>i. i \in DOMAIN c
    OBVIOUS
  <2> HIDE DEF e, c
  <2>1. Len(e) + i \in DOMAIN (e \o c) /\ (e \o c)[Len(e) + i] = c[i]
    BY <2>e, <2>i, Concatenated
  <2> QED
    BY <2>1, <2>w DEF e, c
<1> QED
  BY <1>2, <1>3

\* The words of the start are from the start.
LEMMA WordsFromStart ==
  ASSUME start \in Starts
  PROVE  /\ \A i \in DOMAIN start.env : FromStart(start.env[i])
         /\ \A i \in DOMAIN start.cmd : FromStart(start.cmd[i])
<1>1. start.env \in Seq(StartWords) /\ start.cmd \in Seq(StartWords)
  BY StartTold
<1>2. \A w \in StartWords : w.neg \in BOOLEAN
  BY DEF StartWords
<1> HIDE DEF StartWords
<1>3. \A i \in DOMAIN start.env : i \in DOMAIN Words /\ Words[i] = start.env[i]
  BY WordsThere
<1>4. \A i \in DOMAIN start.cmd :
        Len(start.env) + i \in DOMAIN Words /\ Words[Len(start.env) + i] = start.cmd[i]
  BY WordsThere
<1>5. ASSUME NEW i \in DOMAIN Words, Words[i].neg \in BOOLEAN PROVE FromStart(Words[i])
  BY <1>5 DEF FromStart, Negated, Given
<1>6. \A i \in DOMAIN start.env : FromStart(start.env[i])
  BY <1>1, <1>2, <1>3, <1>5
<1>7. \A i \in DOMAIN start.cmd : FromStart(start.cmd[i])
  BY <1>1, <1>2, <1>4, <1>5
<1> QED
  BY <1>6, <1>7

\* The words that wait first are those of the start.
LEMMA SourcedInit == Init => Sourced
<1> SUFFICES ASSUME Init PROVE Sourced
  OBVIOUS
<1>1. cur = Idle /\ args = <<>>
  BY DEF Init
<1>2. FromStart(cur)
  BY <1>1, IdleWord DEF FromStart
<1>3. DOMAIN args = {}
  BY <1>1
<1> QED
  BY <1>2, <1>3 DEF Sourced

\* An alias only puts words in front that are of the program's making.
LEMMA SourcedNext == Types /\ Sourced /\ [Next]_vars => Sourced'
<1> SUFFICES ASSUME Types, Sourced, [Next]_vars PROVE Sourced'
  OBVIOUS
<1> USE DEF Types, Worded
<1>0. start' = start
  <2>1. HandleEnvOptions \/ PopFirst \/ EndOfOptions \/ ExpandAlias \/ Apply => start' = start
    BY DEF HandleEnvOptions, PopFirst, EndOfOptions, ExpandAlias, Apply
  <2> QED
    BY <2>1, CheckCases DEF Next, vars
<1>2. ASSUME FromStart(cur'), \A i \in DOMAIN args' : FromStart(args'[i]) PROVE Sourced'
  <2>1. Words' = Words
    BY <1>0 DEF Words
  <2>2. Negated' = Negated /\ \A name, neg : Given(name, neg)' = Given(name, neg)
    BY <2>1 DEF Negated, Given
  <2>3. \A w : FromStart(w)' <=> FromStart(w)
    BY <2>2 DEF FromStart
  <2> QED
    BY <1>2, <2>3 DEF Sourced
<1>3. ASSUME cur' \in {cur, Idle}, args' \in {args, start.env, start.cmd} PROVE Sourced'
  <2>1. FromStart(Idle)
    BY IdleWord DEF FromStart
  <2>2. FromStart(cur')
    BY <1>3, <2>1 DEF Sourced
  <2>3. \A i \in DOMAIN args' : FromStart(args'[i])
    BY <1>3, WordsFromStart DEF Sourced
  <2> QED
    BY <1>2, <2>2, <2>3
<1>4. CASE HandleEnvOptions \/ EndOfOptions \/ UNCHANGED vars
  BY <1>3, <1>4 DEF HandleEnvOptions, EndOfOptions, vars
<1>5. CASE PopFirst
  <2>1. args # <<>> /\ cur' = Head(args) /\ args' = Tail(args)
    BY <1>5 DEF PopFirst
  <2>2. FromStart(cur')
    BY <2>1 DEF Sourced
  <2>3. \A i \in DOMAIN args' : FromStart(args'[i])
    BY <2>1 DEF Sourced
  <2> QED
    BY <1>2, <2>2, <2>3
<1>6. CASE ExpandAlias
  <2>1. CASE cur' = cur /\ args' = args
    BY <1>3, <2>1
  <2>2. ASSUME NEW alias \in aliases_,
               cur' = [cur EXCEPT !.name = alias.to[1].name], args' = Tail(alias.to) \o args
        PROVE  Sourced'
    <3>1. /\ alias.to \in Seq(StartWords) /\ alias.to # <<>> /\ alias.to[1].name \notin Tracked
          /\ \A i \in DOMAIN alias.to :
               ~alias.to[i].neg /\ alias.to[i].name \notin {"--watch", "--watch-path"}
      BY AliasesTold DEF AliasTold
    <3>2. cur'.neg = cur.neg /\ cur'.name = alias.to[1].name
      BY <2>2 DEF StartWords
    <3>3. FromStart(cur')
      BY <3>1, <3>2 DEF Sourced, FromStart, Tracked
    <3>4. \A i \in DOMAIN alias.to : FromStart(alias.to[i])
      BY <3>1 DEF FromStart
    <3>5. \A i \in DOMAIN Tail(alias.to) : FromStart(Tail(alias.to)[i])
      BY <3>1, <3>4
    <3>6. \A i \in DOMAIN args' : FromStart(args'[i])
      <4>1. Tail(alias.to) \in Seq(StartWords)
        BY <3>1
      <4> QED
        BY <2>2, <3>5, <4>1 DEF Sourced
    <3> QED
      BY <1>2, <3>3, <3>6
  <2> QED
    BY <1>6, <2>1, <2>2 DEF ExpandAlias
<1>7. CASE Apply
  <2>1. CASE Refused
    BY <1>3, <2>1 DEF Refused
  <2>2. ASSUME NEW text, Taken(text) PROVE Sourced'
    <3>1. cur' = cur /\ (args' = args \/ (args # <<>> /\ args' = Tail(args)))
      BY <2>2 DEF Taken
    <3>2. \A i \in DOMAIN args' : FromStart(args'[i])
      BY <3>1 DEF Sourced
    <3> QED
      BY <1>2, <3>1, <3>2 DEF Sourced
  <2> QED
    BY <1>7, <2>1, <2>2, ApplyCases
<1>8. CASE CheckOptions
  BY <1>3, <1>8, CheckCases
<1> QED
  BY <1>4, <1>5, <1>6, <1>7, <1>8 DEF Next

\* A step that changes neither what the field f has nor whether it was written.
Kept(f) ==
  /\ f \in DOMAIN written' <=> f \in DOMAIN written
  /\ Lookup(written', f) = Lookup(written, f)

\* What a word leaves in a switch: what the word says if it is its own, what it
\* implies, or what was there.
LEMMA SwitchStep ==
  ASSUME Types, NEW text, Taken(text), NEW f \in Switches \ {"--debug", "--debug-brk"}
  PROVE  /\ cur.name = f => Lookup(written', f) = ~cur.neg
         /\ cur.name # f =>
              \/ Kept(f) /\ f \notin ImpliedFields(cur)
              \/ \E i \in implications_ :
                   /\ i.from = cur.name /\ i.neg = cur.neg /\ i.to = f
                   /\ Lookup(written', f) = i.value
<1>1. written' = Writes(cur, text)
  BY DEF Taken
<1>2. ASSUME cur.name = f PROVE Lookup(written', f) = ~cur.neg
  <2>1. f \in OwnFields(cur) /\ OwnValue(cur, text) = ~cur.neg
    BY <1>2, NamedOwn
  <2>2. f \in DOMAIN written' /\ written'[f] = OwnValue(cur, text)
    BY <1>1, <2>1, OwnWritten
  <2> QED
    BY <2>1, <2>2 DEF Lookup
<1>3. cur.name # f => f \notin OwnFields(cur)
  BY OwnNamed
<1>4. ASSUME cur.name # f, f \notin ImpliedFields(cur) PROVE Kept(f)
  BY <1>1, <1>3, <1>4, NotWritten DEF Kept
<1>5. ASSUME cur.name # f, f \in ImpliedFields(cur)
      PROVE  \E i \in implications_ :
               /\ i.from = cur.name /\ i.neg = cur.neg /\ i.to = f
               /\ Lookup(written', f) = i.value
  <2>1. f \in DOMAIN written' /\ \E i \in ImpliedBy(cur) : i.to = f /\ written'[f] = i.value
    BY <1>1, <1>3, <1>5, ImpliedWritten
  <2> QED
    BY <2>1, <1>5, ImpliedTold DEF Lookup
<1> QED
  BY <1>2, <1>4, <1>5

\* What the five switches that are implied may become by another's word.
LEMMA ImpliedStep ==
  ASSUME Types, NEW text, Taken(text)
  PROVE  /\ \A f \in {"--inspect", "--enable-source-maps", "[has_eval_string]"} :
              cur.name # f =>
                Lookup(written', f) = TRUE \/ (Kept(f) /\ f \notin ImpliedFields(cur))
         /\ cur.name # "--watch" =>
              \/ Lookup(written', "--watch") = TRUE /\ cur.name = "--watch-path" /\ cur.neg = FALSE
              \/ Kept("--watch") /\ "--watch" \notin ImpliedFields(cur)
         /\ \/ Lookup(written', "[ssl_openssl_cert_store]") = TRUE /\ cur.name = "--use-openssl-ca"
            \/ Lookup(written', "[ssl_openssl_cert_store]") = FALSE /\ cur.name = "--use-bundled-ca"
            \/ /\ Kept("[ssl_openssl_cert_store]")
               /\ "[ssl_openssl_cert_store]" \notin ImpliedFields(cur)
<1>1. {"--inspect", "--enable-source-maps", "[has_eval_string]", "--watch", "[ssl_openssl_cert_store]"}
        \subseteq Switches \ {"--debug", "--debug-brk"}
  BY DEF Switches
<1>2. cur.name # "[ssl_openssl_cert_store]"
  BY DEF Types, Worded, StartWords, InternalNames
<1>3. ASSUME NEW f \in {"--inspect", "--enable-source-maps", "[has_eval_string]"}, cur.name # f
      PROVE  Lookup(written', f) = TRUE \/ (Kept(f) /\ f \notin ImpliedFields(cur))
  <2>1. CASE \E i \in implications_ :
               /\ i.from = cur.name /\ i.neg = cur.neg /\ i.to = f
               /\ Lookup(written', f) = i.value
    BY <2>1, ImplicationsTold DEF ImplicationTold
  <2> QED
    BY <1>1, <1>3, <2>1, SwitchStep
<1>4. ASSUME cur.name # "--watch"
      PROVE  \/ Lookup(written', "--watch") = TRUE /\ cur.name = "--watch-path" /\ cur.neg = FALSE
             \/ Kept("--watch") /\ "--watch" \notin ImpliedFields(cur)
  <2>1. CASE \E i \in implications_ :
               /\ i.from = cur.name /\ i.neg = cur.neg /\ i.to = "--watch"
               /\ Lookup(written', "--watch") = i.value
    BY <2>1, ImplicationsTold DEF ImplicationTold
  <2> QED
    BY <1>1, <1>4, <2>1, SwitchStep
<1>5. \/ Lookup(written', "[ssl_openssl_cert_store]") = TRUE /\ cur.name = "--use-openssl-ca"
      \/ Lookup(written', "[ssl_openssl_cert_store]") = FALSE /\ cur.name = "--use-bundled-ca"
      \/ /\ Kept("[ssl_openssl_cert_store]")
         /\ "[ssl_openssl_cert_store]" \notin ImpliedFields(cur)
  <2>1. CASE \E i \in implications_ :
               /\ i.from = cur.name /\ i.neg = cur.neg /\ i.to = "[ssl_openssl_cert_store]"
               /\ Lookup(written', "[ssl_openssl_cert_store]") = i.value
    BY <2>1, ImplicationsTold DEF ImplicationTold
  <2> QED
    BY <1>1, <1>2, <2>1, SwitchStep
<1> QED
  BY <1>3, <1>4, <1>5

\* What no word implies, only its own word changes.
LEMMA NamedStep ==
  ASSUME NEW text, Taken(text), NEW f \in Unimplied, f # "--debug", cur.name # f \/ f \in Nobody
  PROVE  Kept(f)
BY OnlyByName DEF Taken, Kept

\* An implication of the table is followed.
LEMMA Followed ==
  ASSUME NEW f \in {"--inspect", "--watch", "--enable-source-maps", "[has_eval_string]"},
         Implication(cur.name, FALSE, f, TRUE) \in implications_, cur.neg = FALSE
  PROVE  f \in ImpliedFields(cur)
BY Implying DEF Switches

\* The fields that the invariants below are about.
Spoken ==
  {"--inspect", "--inspect-brk", "--inspect-brk-node", "--inspect-wait", "--watch", "--watch-path",
   "--enable-source-maps", "--experimental-transform-types", "--eval", "[has_eval_string]",
   "[ssl_openssl_cert_store]", "--use-openssl-ca", "--use-bundled-ca", "--inspect-port"}

\* What a word implies, another holds, unless a negated word took it away.
Breaks ==
  Now("--inspect-brk") \/ Now("--inspect-brk-node") \/ Now("--inspect-wait") =>
    Now("--inspect") \/ Given("--inspect", TRUE)

\* Who watches a path watches, unless a --no-watch was given.
Watches == Now("--watch-path") # <<>> => Now("--watch") \/ Given("--watch", TRUE)

\* Who transforms types has source maps, unless they were negated.
Transforms ==
  Now("--experimental-transform-types") =>
    Now("--enable-source-maps") \/ Given("--enable-source-maps", TRUE)

\* A script to evaluate is known to be there.
Evaluates == "--eval" \in DOMAIN written => Now("[has_eval_string]")

\* The two switches of the store agree with the internal option.
Stores ==
  ~Negated =>
    /\ Now("[ssl_openssl_cert_store]") => Now("--use-openssl-ca")
    /\ Now("--use-openssl-ca") /\ ~Now("--use-bundled-ca") => Now("[ssl_openssl_cert_store]")

\* Nobody watches unless told to.
WatchGiven == Now("--watch") => Given("--watch", FALSE) \/ Given("--watch-path", FALSE)

\* All of them together, an invariant of both passes.
Following == Breaks /\ Watches /\ Transforms /\ Evaluates /\ Stores /\ WatchGiven

\* The switches among those fields are on or off.
LEMMA SpokenNow ==
  ASSUME FieldsTyped
  PROVE  \A f \in Spoken \ {"--watch-path", "--eval", "--inspect-port"} : Lookup(written, f) \in BOOLEAN
<1>1. Spoken \ {"--watch-path", "--eval", "--inspect-port"} \subseteq Switches
  BY DEF Spoken, Switches
<1> QED
  BY <1>1, LookupTyped

\* A step that keeps the fields keeps what is said of them.
LEMMA FollowingKept ==
  ASSUME Following, start' = start, \A f \in Spoken : Kept(f)
  PROVE  Following'
<1>1. Negated' = Negated /\ \A n, b : Given(n, b)' = Given(n, b)
  BY DEF Negated, Given, Words
<1>2. \A f \in Spoken : Now(f)' = Now(f)
  BY DEF Kept, Now
<1>3. "--eval" \in DOMAIN written' <=> "--eval" \in DOMAIN written
  BY DEF Kept, Spoken
<1> QED
  BY <1>1, <1>2, <1>3 DEF Following, Breaks, Watches, Transforms, Evaluates, Stores, WatchGiven, Spoken

\* And it holds while the fields are as at first.
LEMMA FollowingAtFirst ==
  ASSUME \A f \in Spoken : f \notin DOMAIN written
  PROVE  Following
<1>1. \A f \in Spoken : Now(f) = InitialValue(f)
  BY DEF Now, Lookup
<1>2. Spoken \ {"--watch-path", "--eval", "--inspect-port"} \subseteq Switches
  BY DEF Spoken, Switches
<1>3. \A f \in Spoken \ {"--watch-path", "--eval", "--inspect-port"} : Now(f) = FALSE
  BY <1>1, <1>2, InitialSwitches
<1>4. Now("--watch-path") = <<>> /\ "--eval" \notin DOMAIN written
  <2>1. {"--watch-path", "--eval"} \subseteq Spoken
    BY DEF Spoken
  <2>2. InitialValue("--watch-path") = <<>>
    BY Initially
  <2> QED
    BY <1>1, <2>1, <2>2
<1>5. /\ ~Now("--inspect-brk") /\ ~Now("--inspect-brk-node") /\ ~Now("--inspect-wait")
      /\ ~Now("--experimental-transform-types") /\ ~Now("[ssl_openssl_cert_store]")
      /\ ~Now("--use-openssl-ca") /\ ~Now("--watch")
  BY <1>3 DEF Spoken
<1> HIDE DEF Now
<1> QED
  BY <1>4, <1>5 DEF Following, Breaks, Watches, Transforms, Evaluates, Stores, WatchGiven

\* No word has spoken of these fields.
Untouched == \A f \in Spoken : f \notin DOMAIN written

\* Then the implications hold.
LEMMA FollowingUntouched == Untouched => Following
BY FollowingAtFirst DEF Untouched

\* As they do at first.
LEMMA FollowingInit == Init => Following
<1>1. Init => Untouched
  BY DEF Init, Untouched
<1> QED
  BY <1>1, FollowingUntouched

\* What a switch implies holds after a word, or was negated.
LEMMA StillImplied ==
  ASSUME Types, Sourced, NEW text, Taken(text),
         NEW f \in {"--inspect", "--enable-source-maps"},
         NEW b \in (Switches \cap Unimplied) \ {"--debug", "--debug-brk"},
         Implication(b, FALSE, f, TRUE) \in implications_,
         Now(b) => Now(f) \/ Given(f, TRUE), Lookup(written', b)
  PROVE  Lookup(written', f) \/ Given(f, TRUE)
<1>1. cur.neg \in BOOLEAN
  BY DEF Types, Worded, StartWords
<1>2. f \in Switches \ {"--debug", "--debug-brk"}
  BY DEF Switches
<1>3. CASE cur.name = f
  BY <1>1, <1>2, <1>3, SwitchStep DEF Sourced, FromStart
<1>4. CASE cur.name # f /\ Lookup(written', f) = TRUE
  BY <1>4
<1>5. CASE cur.name # f /\ Kept(f) /\ f \notin ImpliedFields(cur)
  <2>1. CASE cur.name = b
    <3>1. Lookup(written', b) = ~cur.neg
      BY <2>1, SwitchStep
    <3>2. cur.neg = FALSE
      BY <1>1, <3>1
    <3> QED
      BY <1>5, <2>1, <3>2, Followed
  <2>2. CASE cur.name # b
    BY <1>5, <2>2, NamedStep DEF Kept, Now
  <2> QED
    BY <2>1, <2>2
<1> QED
  BY <1>3, <1>4, <1>5, ImpliedStep

\* What the words write keeps the implications.
LEMMA FollowingTaken ==
  ASSUME Types, Sourced, Following, NEW text, Taken(text)
  PROVE  Following'
<1>1. cur.neg \in BOOLEAN /\ FieldsTyped /\ cur.name \notin InternalNames
  BY TypedFields DEF Types, Worded, StartWords
<1>2. Negated' = Negated /\ \A n, b : Given(n, b)' = Given(n, b)
  BY DEF Negated, Given, Words, Taken
<1>3. cur.name \in OptionNames /\ cur.neg => OptionInfo[cur.name].type \in {"kBoolean", "kV8Option"}
  BY DEF Taken
<1>4. {"--inspect-brk", "--inspect-brk-node", "--inspect-wait", "--experimental-transform-types"}
        \subseteq (Switches \cap Unimplied) \ {"--debug", "--debug-brk"}
  BY DEF Switches, Unimplied
<1>5. Breaks'
  <2> SUFFICES ASSUME NEW b \in {"--inspect-brk", "--inspect-brk-node", "--inspect-wait"},
                      Lookup(written', b)
               PROVE  Lookup(written', "--inspect") \/ Given("--inspect", TRUE)
    BY <1>2 DEF Breaks, Now
  <2>1. Now(b) => Now("--inspect") \/ Given("--inspect", TRUE)
    BY DEF Following, Breaks
  <2> QED
    BY <1>4, <2>1, StillImplied, ImplicationsThere
<1>6. Transforms'
  <2> SUFFICES ASSUME Lookup(written', "--experimental-transform-types")
               PROVE  Lookup(written', "--enable-source-maps") \/ Given("--enable-source-maps", TRUE)
    BY <1>2 DEF Transforms, Now
  <2>1. Now("--experimental-transform-types") =>
          Now("--enable-source-maps") \/ Given("--enable-source-maps", TRUE)
    BY DEF Following, Transforms
  <2> QED
    BY <1>4, <2>1, StillImplied, ImplicationsThere
<1>7. cur.name \in {"--watch-path", "--eval"} => cur.neg = FALSE
  <2>1. /\ {"--watch-path", "--eval"} \subseteq OptionNames
        /\ OptionInfo["--watch-path"].type = "kStringList" /\ OptionInfo["--eval"].type = "kString"
    BY NamesThere, TypesThere DEF Strings
  <2> QED
    BY <1>1, <1>3, <2>1
<1>8. Watches' /\ WatchGiven'
  <2>1. "--watch" \in Switches \ {"--debug", "--debug-brk"}
        /\ "--watch-path" \in Unimplied /\ "--watch-path" # "--debug"
    BY DEF Switches, Unimplied
  <2>2. CASE cur.name = "--watch"
    <3>1. Lookup(written', "--watch") = ~cur.neg
      BY <2>1, <2>2, SwitchStep
    <3>2. cur.neg => Given("--watch", TRUE)
      BY <2>2 DEF Sourced, FromStart
    <3>3. ~cur.neg => Given("--watch", FALSE)
      BY <2>2 DEF Sourced, FromStart
    <3> QED
      BY <1>2, <3>1, <3>2, <3>3 DEF Watches, WatchGiven, Now
  <2>3. CASE Lookup(written', "--watch") = TRUE /\ cur.name = "--watch-path" /\ cur.neg = FALSE
    <3>1. Given("--watch-path", FALSE)
      BY <2>3 DEF Sourced, FromStart
    <3> QED
      BY <1>2, <2>3, <3>1 DEF Watches, WatchGiven, Now
  <2>4. CASE Kept("--watch") /\ "--watch" \notin ImpliedFields(cur)
    <3>1. cur.name # "--watch-path"
      BY <1>7, <2>4, Followed, ImplicationsThere
    <3>2. Kept("--watch-path")
      BY <2>1, <3>1, NamedStep
    <3> QED
      BY <1>2, <2>4, <3>2 DEF Following, Watches, WatchGiven, Now, Kept
  <2> QED
    BY <2>2, <2>3, <2>4, ImpliedStep
<1>9. Evaluates'
  <2>1. cur.name # "[has_eval_string]"
    BY <1>1 DEF InternalNames
  <2>2. CASE Lookup(written', "[has_eval_string]") = TRUE
    BY <2>2 DEF Evaluates, Now
  <2>3. CASE Kept("[has_eval_string]") /\ "[has_eval_string]" \notin ImpliedFields(cur)
    <3>1. cur.name # "--eval"
      BY <1>7, <2>3, Followed, ImplicationsThere
    <3>2. "--eval" \in Unimplied /\ "--eval" # "--debug"
      BY DEF Unimplied, Strings
    <3>3. Kept("--eval")
      BY <3>1, <3>2, NamedStep
    <3> QED
      BY <2>3, <3>3 DEF Following, Evaluates, Now, Kept
  <2> QED
    BY <2>1, <2>2, <2>3, ImpliedStep
<1>10. Stores'
  <2> SUFFICES ASSUME ~Negated
               PROVE  /\ Lookup(written', "[ssl_openssl_cert_store]") => Lookup(written', "--use-openssl-ca")
                      /\ Lookup(written', "--use-openssl-ca") /\ ~Lookup(written', "--use-bundled-ca") =>
                           Lookup(written', "[ssl_openssl_cert_store]")
    BY <1>2 DEF Stores, Now
  <2>1. cur.neg = FALSE
    BY <1>1 DEF Sourced, FromStart
  <2>2. /\ {"--use-openssl-ca", "--use-bundled-ca"} \subseteq
             (Switches \cap Unimplied) \ {"--debug", "--debug-brk"}
        /\ "[ssl_openssl_cert_store]" \in Switches
    BY DEF Switches, Unimplied
  <2>3. CASE cur.name = "--use-openssl-ca"
    <3>1. Lookup(written', "--use-openssl-ca") = TRUE
      BY <2>1, <2>2, <2>3, SwitchStep
    <3>2. "[ssl_openssl_cert_store]" \in ImpliedFields(cur)
      BY <2>1, <2>2, <2>3, Implying, ImplicationsThere
    <3>3. Lookup(written', "[ssl_openssl_cert_store]") = TRUE
      BY <2>3, <3>2, ImpliedStep
    <3> QED
      BY <3>1, <3>3
  <2>4. CASE cur.name = "--use-bundled-ca"
    <3>1. Lookup(written', "--use-bundled-ca") = TRUE
      BY <2>1, <2>2, <2>4, SwitchStep
    <3>2. "[ssl_openssl_cert_store]" \in ImpliedFields(cur)
      BY <2>1, <2>2, <2>4, Implying, ImplicationsThere
    <3>3. Lookup(written', "[ssl_openssl_cert_store]") = FALSE
      BY <2>4, <3>2, ImpliedStep
    <3> QED
      BY <3>1, <3>3
  <2>5. CASE cur.name \notin {"--use-openssl-ca", "--use-bundled-ca"}
    <3>1. Kept("[ssl_openssl_cert_store]")
      BY <2>5, ImpliedStep
    <3>2. Kept("--use-openssl-ca") /\ Kept("--use-bundled-ca")
      BY <2>2, <2>5, NamedStep
    <3> QED
      BY <3>1, <3>2 DEF Following, Stores, Now, Kept
  <2> QED
    BY <2>3, <2>4, <2>5
<1> QED
  BY <1>5, <1>6, <1>8, <1>9, <1>10 DEF Following

\* No step of the start breaks the implications.
LEMMA FollowingNext == Types /\ Sourced /\ Following /\ [Next]_vars => Following'
<1> SUFFICES ASSUME Types, Sourced, Following, [Next]_vars PROVE Following'
  OBVIOUS
<1>1. CASE HandleEnvOptions
  <2>1. Untouched'
    BY <1>1 DEF HandleEnvOptions, Untouched, Spoken, :>, @@
  <2> QED
    BY <2>1, FollowingUntouched, PTL
<1>2. ASSUME written' = written, start' = start PROVE Following'
  BY <1>2, FollowingKept DEF Kept
<1>3. CASE PopFirst \/ EndOfOptions \/ ExpandAlias \/ UNCHANGED vars
  BY <1>2, <1>3 DEF PopFirst, EndOfOptions, ExpandAlias, vars
<1>4. CASE Apply
  <2>1. CASE Refused
    BY <1>2, <2>1 DEF Refused
  <2> QED
    BY <1>4, <2>1, ApplyCases, FollowingTaken DEF Types
<1>5. CASE CheckOptions
  <2>1. Spoken \cap Checkable = {}
    BY DEF Spoken, Checkable
  <2>2. \A f \in Spoken : Kept(f)
    BY <1>5, <2>1, CheckCases, CheckedKeeps DEF Kept
  <2> QED
    BY <1>5, <2>2, CheckCases, FollowingKept
<1> QED
  BY <1>1, <1>3, <1>4, <1>5 DEF Next

\* Every port that a process may be told to inspect.
Ports == {0} \cup LeastPort .. MaxPort

\* The port of a host and port put together.
LEMMA Joined ==
  ASSUME NEW host, NEW r, DOMAIN r = {"port", "error"}
  PROVE  LET both == [host |-> host] @@ r IN both.port = r.port /\ both.error = r.error
BY DEF @@

\* What from_chars makes of a port within the bounds.
LEMMA Between ==
  ASSUME NEW n \in Int, ~(n > MaxPort), n \notin 1 .. LeastPort - 1
  PROVE  (IF n \in 0 .. MaxPort THEN n ELSE 0) \in Ports
<1>1. LeastPort \in Nat /\ MaxPort \in Nat /\ LeastPort >= 1
  BY DEF LeastPort, MaxPort
<1> QED
  BY <1>1 DEF Ports

\* The port that nobody asked for.
LEMMA UsualPort == 9229 \in Ports
<1>1. LeastPort \in Nat /\ MaxPort \in Nat /\ LeastPort <= 9229 /\ 9229 <= MaxPort
  BY DEF LeastPort, MaxPort
<1> QED
  BY <1>1 DEF Ports

\* The text of a port is refused, or a port.
LEMMA ValidatedPort ==
  ASSUME NEW text
  PROVE  /\ DOMAIN ParseAndValidatePort(text) = {"port", "error"}
         /\ ~ParseAndValidatePort(text).error => ParseAndValidatePort(text).port \in Ports
<1> DEFINE bad == Number(text) > MaxPort \/ Number(text) \in 1 .. LeastPort - 1
           port == IF Number(text) \in 0 .. MaxPort THEN Number(text) ELSE 0
<1>1. ~bad => port \in Ports
  BY NumberIsInt, Between
<1>2. ParseAndValidatePort(text) = [port |-> port, error |-> bad]
  BY DEF ParseAndValidatePort
<1> HIDE DEF bad, port
<1>3. ASSUME bad PROVE ParseAndValidatePort(text).error
  <2>1. bad = TRUE
    BY <1>3, NumberIsInt DEF bad
  <2> QED
    BY <1>2, <2>1
<1> QED
  BY <1>1, <1>2, <1>3

\* A port that is not refused is 0 or one that is not privileged.
LEMMA ValidPort ==
  ASSUME NEW text, ~SplitHostPort(text).error
  PROVE  SplitHostPort(text).port \in Ports
<1> DEFINE colons == {i \in DOMAIN text : text[i] = ":"}
           colon == Max(colons)
           at(host, port) == [host |-> host] @@ ParseAndValidatePort(port)
           alone(host) == [host |-> host, port |-> 9229, error |-> FALSE]
           bare == RemoveBrackets(text)
<1>2. ASSUME NEW host, NEW p, ~at(host, p).error PROVE at(host, p).port \in Ports
  <2>1. at(host, p).port = ParseAndValidatePort(p).port
    BY ValidatedPort, Joined
  <2>2. at(host, p).error = ParseAndValidatePort(p).error
    BY ValidatedPort, Joined
  <2>3. ~ParseAndValidatePort(p).error
    BY <1>2, <2>2
  <2> QED
    BY <2>1, <2>3, ValidatedPort
<1>3. \A host : alone(host).port \in Ports
  BY UsualPort
<1>4. \/ \E host : SplitHostPort(text) = alone(host)
      \/ \E host, p : SplitHostPort(text) = at(host, p)
  <2> HIDE DEF at, alone
  <2>1. CASE bare # text
    <3>1. SplitHostPort(text) = alone(bare)
      BY <2>1 DEF SplitHostPort, alone
    <3> QED
      BY <3>1
  <2>2. CASE bare = text /\ colons # {}
    <3>1. SplitHostPort(text) =
            at(RemoveBrackets(SubSeq(text, 1, colon - 1)), SubSeq(text, colon + 1, Len(text)))
      BY <2>2 DEF SplitHostPort, at
    <3> QED
      BY <3>1
  <2>3. CASE bare = text /\ colons = {} /\ AllDigits(text)
    <3>1. SplitHostPort(text) = at(<<>>, text)
      BY <2>3 DEF SplitHostPort, at
    <3> QED
      BY <3>1
  <2>4. CASE bare = text /\ colons = {} /\ ~AllDigits(text)
    <3>1. SplitHostPort(text) = alone(text)
      BY <2>4 DEF SplitHostPort, alone
    <3> QED
      BY <3>1
  <2> QED
    BY <2>1, <2>2, <2>3, <2>4
<1> HIDE DEF at, alone
<1> QED
  BY <1>2, <1>3, <1>4

\* The inspector has a host, and while nothing is refused a port it may have.
PortKept ==
  /\ Now("--inspect-port").host # <<>>
  /\ errors = {} => Now("--inspect-port").port \in Ports

\* In the first pass, and in the second until it is checked, a debugger may
\* attach, unless the process was to watch.
DebuggerKnown ==
  \/ Now("allow_attaching_debugger") = TRUE
  \/ phase \in {"started", "failed"}
  \/ Given("--watch", FALSE) \/ Given("--watch-path", FALSE)

\* The host and port that are there before any word.
LEMMA PortAtFirst ==
  LET port == [host |-> <<"127.0.0.1">>, port |-> 9229] IN port.host # <<>> /\ port.port \in Ports
BY UsualPort

\* So at first there is a host and a port.
LEMMA PortInit == Init => PortKept
<1> SUFFICES ASSUME Init PROVE PortKept
  OBVIOUS
<1>1. "--inspect-port" \notin DOMAIN written
  BY DEF Init
<1>2. Now("--inspect-port") = [host |-> <<"127.0.0.1">>, port |-> 9229]
  BY <1>1, Initially DEF Now, Lookup
<1> QED
  BY <1>2, PortAtFirst DEF PortKept

\* No word takes the host away, and a port that is bad is an error.
LEMMA PortNext == Types /\ PortKept /\ [Next]_vars => PortKept'
<1> SUFFICES ASSUME Types, PortKept, [Next]_vars PROVE PortKept'
  OBVIOUS
<1>1. CASE HandleEnvOptions
  <2>1. "--inspect-port" \notin DOMAIN written'
    BY <1>1 DEF HandleEnvOptions, :>, @@
  <2>2. Now("--inspect-port")' = [host |-> <<"127.0.0.1">>, port |-> 9229]
    BY <2>1, Initially DEF Now, Lookup
  <2> QED
    BY <2>2, PortAtFirst DEF PortKept
<1>2. ASSUME Kept("--inspect-port"), errors' = {} => errors = {} PROVE PortKept'
  BY <1>2 DEF PortKept, Kept, Now
<1>3. CASE PopFirst \/ EndOfOptions \/ ExpandAlias \/ UNCHANGED vars
  BY <1>2, <1>3 DEF PopFirst, EndOfOptions, ExpandAlias, vars, Kept
<1>4. CASE Apply
  <2>1. CASE Refused
    BY <1>2, <2>1 DEF Refused, Kept
  <2>2. ASSUME NEW text \in Seq(Pieces), Taken(text) PROVE PortKept'
    <3>1. CASE cur.name # "--inspect-port"
      <4>1. "--inspect-port" \in Unimplied /\ "--inspect-port" # "--debug"
        BY DEF Unimplied
      <4>2. Kept("--inspect-port")
        BY <2>2, <3>1, <4>1, NamedStep
      <4> QED
        BY <1>2, <2>2, <3>1, <4>2 DEF Taken
    <3>2. CASE cur.name = "--inspect-port"
      <4> DEFINE new == SplitHostPort(text)
                 old == Lookup(written, "--inspect-port")
      <4>1. "--inspect-port" \in OwnFields(cur) /\ OwnValue(cur, text) = Update(old, new)
        BY <3>2, NamedOwn
      <4>2. Lookup(written', "--inspect-port") = Update(old, new)
        BY <2>2, <4>1, OwnWritten DEF Taken, Lookup
      <4>3. Update(old, new).host # <<>> /\ Update(old, new).port = new.port
        BY DEF Update, PortKept, Now
      <4>4. errors' = {} => ~new.error
        BY <2>2, <3>2 DEF Taken
      <4> QED
        BY <4>2, <4>3, <4>4, ValidPort DEF PortKept, Now
    <3> QED
      BY <3>1, <3>2
  <2> QED
    BY <1>4, <2>1, <2>2, ApplyCases DEF Types
<1>5. CASE CheckOptions
  <2>1. "--inspect-port" \notin Checkable
    BY DEF Checkable
  <2>2. Kept("--inspect-port")
    BY <1>5, <2>1, CheckCases, CheckedKeeps DEF Kept
  <2> QED
    BY <1>2, <1>5, <2>2, CheckCases
<1> QED
  BY <1>1, <1>3, <1>4, <1>5 DEF Next

\* At first a debugger may attach.
LEMMA DebuggerInit == Init => DebuggerKnown
<1> SUFFICES ASSUME Init PROVE DebuggerKnown
  OBVIOUS
<1>1. "allow_attaching_debugger" \notin DOMAIN written
  BY DEF Init
<1>2. Now("allow_attaching_debugger") = TRUE
  BY <1>1, Initially DEF Now, Lookup
<1> QED
  BY <1>2 DEF DebuggerKnown

\* Only a CheckOptions that found a reason keeps it away.
LEMMA DebuggerNext ==
  Types /\ Confined /\ Following /\ DebuggerKnown /\ [Next]_vars => DebuggerKnown'
<1> SUFFICES ASSUME Types, Confined, Following, DebuggerKnown, [Next]_vars PROVE DebuggerKnown'
  OBVIOUS
<1>1. CASE HandleEnvOptions
  <2>1. "allow_attaching_debugger" \notin DOMAIN written'
    BY <1>1 DEF HandleEnvOptions, :>, @@
  <2>2. Now("allow_attaching_debugger")' = TRUE
    BY <2>1, Initially DEF Now, Lookup
  <2> QED
    BY <2>2 DEF DebuggerKnown
<1>2. ASSUME start' = start, phase' = phase, Kept("allow_attaching_debugger") PROVE DebuggerKnown'
  <2>1. \A n, b : Given(n, b)' = Given(n, b)
    BY <1>2 DEF Given, Words
  <2> QED
    BY <1>2, <2>1 DEF DebuggerKnown, Kept, Now
<1>3. CASE PopFirst \/ EndOfOptions \/ ExpandAlias \/ UNCHANGED vars
  BY <1>2, <1>3 DEF PopFirst, EndOfOptions, ExpandAlias, vars, Kept
<1>4. CASE Apply
  <2>1. CASE Refused
    BY <1>2, <2>1 DEF Refused, Kept
  <2>2. ASSUME NEW text, Taken(text) PROVE DebuggerKnown'
    <3>1. /\ "allow_attaching_debugger" \in Unimplied /\ "allow_attaching_debugger" \in Nobody
          /\ "allow_attaching_debugger" # "--debug"
      BY DEF Unimplied, Nobody
    <3>2. Kept("allow_attaching_debugger")
      BY <2>2, <3>1, NamedStep
    <3> QED
      BY <1>2, <2>2, <3>2 DEF Taken
  <2> QED
    BY <1>4, <2>1, <2>2, ApplyCases DEF Types
<1>5. CASE CheckOptions
  <2>1. CASE phase' \in {"started", "failed"}
    BY <2>1 DEF DebuggerKnown
  <2>2. CASE phase = "env" /\ start' = start
    <3>1. Lookup(written, "--test") = FALSE
      <4>1. "--test" \in Barred \cap Switches /\ "--test" # "[ssl_openssl_cert_store]"
        BY DEF Barred, Switches
      <4> QED
        BY <2>2, <4>1, InitialSwitches DEF Confined, Lookup
    <3>2. Lookup(written', "allow_attaching_debugger") = Debugger(written)
      <4>1. "allow_attaching_debugger" \in DOMAIN Checked(written)
        BY CheckedFields, SettledFields DEF Checkable
      <4> QED
        BY <1>5, <4>1, CheckCases, CheckedFields DEF Lookup
    <3>3. \A n, b : Given(n, b)' = Given(n, b)
      BY <2>2 DEF Given, Words
    <3>4. CASE Lookup(written, "--watch")
      <4>1. Given("--watch", FALSE) \/ Given("--watch-path", FALSE)
        BY <3>4 DEF Following, WatchGiven, Now
      <4> QED
        BY <3>3, <4>1 DEF DebuggerKnown
    <3>5. CASE ~Lookup(written, "--watch")
      <4>1. Debugger(written) = Lookup(written, "allow_attaching_debugger")
        BY <3>1, <3>5 DEF Debugger
      <4> QED
        BY <2>2, <3>2, <3>3, <4>1 DEF DebuggerKnown, Now
    <3> QED
      BY <3>4, <3>5
  <2> QED
    BY <1>5, <2>1, <2>2, CheckCases
<1> QED
  BY <1>1, <1>3, <1>4, <1>5 DEF Next

\* A set of natural numbers has a smallest member.
LEMMA Smallest ==
  ASSUME NEW S \in SUBSET Nat, S # {}
  PROVE  \E m \in S : \A n \in S : m <= n
<1>1. OpToRel(<, Nat) = {ss \in Nat \X Nat : ss[1] < ss[2]}
  BY Zenon DEF OpToRel
<1>2. PICK m \in S : \A n \in S : <<n, m>> \notin {ss \in Nat \X Nat : ss[1] < ss[2]}
  BY <1>1, NatLessThanWellFounded, WFMin
<1>3. ASSUME NEW n \in S PROVE m <= n
  <2>1. <<n, m>> \in Nat \X Nat /\ <<n, m>>[1] = n /\ <<n, m>>[2] = m
    OBVIOUS
  <2>2. ~(n < m)
    BY <1>2, <2>1, Zenon
  <2> QED
    BY <2>2
<1> QED
  BY <1>3

\* And a set of places in a sequence has a greatest, which Max is.
LEMMA Greatest ==
  ASSUME NEW n \in Nat, NEW S \in SUBSET (1 .. n), S # {}
  PROVE  Max(S) \in S /\ \A i \in S : i <= Max(S)
<1> DEFINE T == {n - i : i \in S}
<1>1. T \in SUBSET Nat /\ T # {}
  <2>1. \A i \in S : i \in Int /\ n - i \in Nat
    OBVIOUS
  <2> QED
    BY <2>1
<1>2. PICK m \in T : \A k \in T : m <= k
  BY <1>1, Smallest
<1>3. PICK i \in S : m = n - i
  OBVIOUS
<1>4. ASSUME NEW j \in S PROVE i >= j
  <2>1. n - j \in T /\ j \in 1 .. n /\ i \in 1 .. n
    OBVIOUS
  <2> HIDE DEF T
  <2> QED
    BY <1>2, <1>3, <2>1
<1>5. Max(S) \in S /\ \A y \in S : Max(S) >= y
  BY <1>4 DEF Max
<1>6. \A y \in S : y \in Int
  OBVIOUS
<1> QED
  BY <1>5, <1>6

\* The places of a name in a sequence of words.
PlacesOf(name, words) == {i \in DOMAIN words : words[i].name = name}

\* No word says nothing.
LEMMA LastOfNone == \A name, old : LastSaid(name, <<>>, old) = old
BY DEF LastSaid

\* What the first word says is old to the others.
LEMMA LastOfTail ==
  ASSUME NEW S, NEW words \in Seq(S), words # <<>>, NEW name, NEW old
  PROVE  LastSaid(name, words, old) =
           LastSaid(name, Tail(words), IF Head(words).name = name THEN Says(Head(words)) ELSE old)
<1> DEFINE all == PlacesOf(name, words)
           later == PlacesOf(name, Tail(words))
           n == Len(words)
<1>1. /\ n \in Nat \ {0} /\ DOMAIN words = 1 .. n /\ DOMAIN Tail(words) = 1 .. n - 1
      /\ Head(words) = words[1] /\ \A i \in 1 .. n - 1 : Tail(words)[i] = words[i + 1]
  OBVIOUS
<1>2. /\ all \in SUBSET (1 .. n) /\ later \in SUBSET (1 .. n - 1)
      /\ \A i \in 1 .. n - 1 : i \in later <=> i + 1 \in all
      /\ 1 \in all <=> Head(words).name = name
  BY <1>1 DEF PlacesOf
<1>3. /\ LastSaid(name, words, old) = IF all = {} THEN old ELSE Says(words[Max(all)])
      /\ \A v : LastSaid(name, Tail(words), v) = IF later = {} THEN v ELSE Says(Tail(words)[Max(later)])
  BY DEF LastSaid, PlacesOf
<1> HIDE DEF all, later, n
<1>4. CASE later = {}
  <2>1. all \subseteq {1}
    BY <1>1, <1>2, <1>4
  <2>2. 1 \in all => Max(all) = 1
    BY <1>1, <1>2, <2>1, Greatest
  <2> QED
    BY <1>1, <1>2, <1>3, <1>4, <2>1, <2>2
<1>5. CASE later # {}
  <2>0. n - 1 \in Nat
    BY <1>1
  <2>1. Max(later) \in later /\ \A i \in later : i <= Max(later)
    BY <1>2, <1>5, <2>0, Greatest
  <2>2. all # {}
    BY <1>2, <2>1
  <2>3. Max(all) \in all /\ \A i \in all : i <= Max(all)
    BY <1>1, <1>2, <2>2, Greatest
  <2>4. Max(all) = Max(later) + 1
    <3>1. Max(later) \in 1 .. n - 1 /\ Max(later) + 1 \in all /\ Max(all) \in 1 .. n
      BY <1>2, <2>1, <2>3
    <3>2. Max(later) + 1 <= Max(all)
      BY <2>3, <3>1
    <3>3. Max(all) - 1 \in 1 .. n - 1 /\ (Max(all) - 1) + 1 = Max(all)
      BY <1>1, <3>1, <3>2
    <3>4. Max(all) - 1 \in later
      BY <1>2, <2>3, <3>3
    <3>5. Max(all) - 1 <= Max(later)
      BY <2>1, <3>4
    <3> QED
      BY <1>1, <3>1, <3>2, <3>5
  <2> QED
    BY <1>1, <1>2, <1>3, <1>5, <2>1, <2>2, <2>4
<1> QED
  BY <1>4, <1>5

\* What the words of one sequence say is old to those of the next.
LEMMA LastOfBoth ==
  ASSUME NEW S, NEW a \in Seq(S), NEW b \in Seq(S), NEW name, NEW old
  PROVE  LastSaid(name, a \o b, old) = LastSaid(name, b, LastSaid(name, a, old))
<1> DEFINE c == a \o b
           all == PlacesOf(name, c)
           left == PlacesOf(name, a)
           right == PlacesOf(name, b)
           m == Len(a)
           n == Len(b)
<1>1. /\ m \in Nat /\ n \in Nat /\ DOMAIN a = 1 .. m /\ DOMAIN b = 1 .. n /\ DOMAIN c = 1 .. m + n
      /\ \A i \in 1 .. m : c[i] = a[i]
      /\ \A i \in 1 .. n : c[m + i] = b[i]
  OBVIOUS
<1> HIDE DEF c, m, n
<1>2. /\ all \in SUBSET (1 .. m + n) /\ left \in SUBSET (1 .. m) /\ right \in SUBSET (1 .. n)
      /\ \A i \in 1 .. m : i \in left <=> i \in all
      /\ \A i \in 1 .. n : i \in right <=> m + i \in all
  BY <1>1 DEF PlacesOf
<1>3. /\ LastSaid(name, c, old) = IF all = {} THEN old ELSE Says(c[Max(all)])
      /\ LastSaid(name, a, old) = IF left = {} THEN old ELSE Says(a[Max(left)])
      /\ \A v : LastSaid(name, b, v) = IF right = {} THEN v ELSE Says(b[Max(right)])
  BY DEF LastSaid, PlacesOf
<1> HIDE DEF all, left, right
<1>4. CASE right = {}
  <2>1. all = left
    <3>1. ASSUME NEW i \in all PROVE i \in left
      <4>1. i \in 1 .. m \/ (i - m \in 1 .. n /\ m + (i - m) = i)
        BY <1>1, <1>2
      <4> QED
        BY <1>2, <1>4, <4>1
    <3> QED
      BY <1>2, <3>1, <1>1
  <2>2. left # {} => Max(left) \in 1 .. m
    BY <1>1, <1>2, Greatest
  <2> QED
    BY <1>1, <1>3, <1>4, <2>1, <2>2 DEF c
<1>5. CASE right # {}
  <2>1. Max(right) \in right /\ \A i \in right : i <= Max(right)
    BY <1>1, <1>2, <1>5, Greatest
  <2>2. m + Max(right) \in all
    BY <1>2, <2>1
  <2>3. Max(all) \in all /\ \A i \in all : i <= Max(all)
    <3>1. m + n \in Nat
      BY <1>1
    <3> QED
      BY <1>2, <2>2, <3>1, Greatest
  <2>4. Max(all) = m + Max(right)
    <3>1. Max(all) >= m + Max(right) /\ Max(right) \in 1 .. n /\ Max(all) \in 1 .. m + n
      BY <1>2, <2>1, <2>2, <2>3
    <3>2. Max(all) - m \in 1 .. n /\ m + (Max(all) - m) = Max(all)
      BY <1>1, <3>1
    <3>3. Max(all) - m \in right
      BY <1>2, <2>3, <3>2
    <3> QED
      BY <1>1, <2>1, <3>1, <3>2, <3>3
  <2> QED
    BY <1>1, <1>2, <1>3, <1>5, <2>1, <2>2, <2>4 DEF c
<1> QED
  BY <1>4, <1>5

\* The fields that say where profiles go.
Profiled == {"--cpu-prof", "--heap-prof", "--cpu-prof-dir", "--heap-prof-dir", "--diagnostic-dir"}
Dirs == {"--cpu-prof-dir", "--heap-prof-dir"}

\* What they are when the command line begins to be read.
FirstDir(profile) ==
  IF Said(profile.on, start.env) /\ Said(profile.dir, start.env) = <<>>
  THEN Said("--diagnostic-dir", start.env) ELSE Said(profile.dir, start.env)
FirstValue(f) ==
  CASE f = CpuProf.dir -> FirstDir(CpuProf)
    [] f = HeapProf.dir -> FirstDir(HeapProf)
    [] OTHER -> Said(f, start.env)

\* The words that are not applied.
Unapplied == IF pc \in {"alias", "apply"} THEN <<cur>> \o args ELSE args

\* What the fields are to be at the end of each pass, if there is no error: what
\* the words that are not applied yet make of what the fields are now.
Parsing ==
  SpelledOut /\ errors = {} /\ phase \in {"env", "cmd"} =>
    /\ \A i \in DOMAIN args : Plain(args[i])
    /\ pc \in {"alias", "apply"} => Plain(cur)
    /\ pc = "over" => args = <<>>
    /\ phase = "env" =>
         \A f \in Profiled : LastSaid(f, Unapplied, Now(f)) = Said(f, start.env)
    /\ phase = "cmd" =>
         /\ \A f \in Profiled : LastSaid(f, Unapplied, Now(f)) = LastSaid(f, start.cmd, FirstValue(f))
         /\ \A f \in Dirs :
              (\E i \in DOMAIN start.cmd : start.cmd[i].name = f) =>
                Now(f) # <<>> \/ \E i \in DOMAIN Unapplied : Unapplied[i].name = f

\* What is known of those names.
LEMMA ProfiledTold ==
  /\ CpuProf.dir = "--cpu-prof-dir" /\ HeapProf.dir = "--heap-prof-dir"
  /\ CpuProf.on = "--cpu-prof" /\ HeapProf.on = "--heap-prof"
  /\ CpuProf.name = "--cpu-prof-name" /\ HeapProf.name = "--heap-prof-name"
  /\ Profiled \subseteq Unimplied \ (Nobody \cup {"--debug", "--debug-brk"})
  /\ Profiled \ Dirs \subseteq Profiled \ Checkable
  /\ \A f \in {"--cpu-prof", "--heap-prof"} : OptionInfo[f].type = "kBoolean" /\ InitialValue(f) = FALSE
  /\ \A f \in Dirs \cup {"--diagnostic-dir"} : OptionInfo[f].type = "kString" /\ InitialValue(f) = <<>>
<1>1. /\ {"--cpu-prof", "--heap-prof"} \subseteq Switches
      /\ Dirs \cup {"--diagnostic-dir"} \subseteq Strings \ {"--test-isolation", "--inspect-publish-uid"}
  BY DEF Switches, Strings, Dirs
<1>2. Profiled \subseteq Unimplied \ (Nobody \cup {"--debug", "--debug-brk"})
  BY DEF Profiled, Unimplied, Switches, Strings, Nobody
<1>3. Profiled \ Dirs \subseteq Profiled \ Checkable
  BY DEF Profiled, Dirs, Checkable
<1> HIDE DEF Profiled, Dirs, Strings, Switches
<1> QED
  BY <1>1, <1>2, <1>3, TypesThere, InitialSwitches, Initially DEF CpuProf, HeapProf

\* The words of a start that is spelled out are plain, in both its lists.
LEMMA AllPlain ==
  ASSUME SpelledOut, start \in Starts
  PROVE  /\ \A i \in DOMAIN start.env : Plain(start.env[i])
         /\ \A i \in DOMAIN start.cmd : Plain(start.cmd[i])
BY WordsThere DEF SpelledOut

\* A word that no argument follows has its text with it, and that is not empty.
LEMMA ApplyPlain ==
  ASSUME Types, Apply, errors' = {}, \A i \in DOMAIN args : Plain(args[i])
  PROVE  \E text : /\ Taken(text) /\ args' = args
                   /\ cur.name \in Dirs \cup {"--diagnostic-dir"} => text = cur.text /\ text # <<>>
<1>1. args # <<>> => Head(args).name # "argument"
  <2>1. args # <<>> => 1 \in DOMAIN args /\ Head(args) = args[1]
    BY DEF Types, Worded
  <2> QED
    BY <2>1 DEF Plain
<1>2. ~Refused
  BY DEF Refused
<1>3. ~RefuseInEnv /\ ~RefuseNegation
  BY <1>2 DEF Apply, RefuseInEnv, RefuseNegation, Reject, Refused
<1>4. CASE ApplyFlag
  <2>1. cur.name \notin Dirs \cup {"--diagnostic-dir"}
    <3> SUFFICES ASSUME cur.name \in Dirs \cup {"--diagnostic-dir"} PROVE FALSE
      OBVIOUS
    <3>1. OptionInfo[cur.name].type = "kString"
      BY ProfiledTold
    <3>2. cur.name \in OptionNames
      BY NamesThere DEF Dirs, Strings
    <3> QED
      BY <1>4, <3>1, <3>2 DEF ApplyFlag, TakesValue, HasField
  <2>2. cur.name \in OptionNames => OptionInfo[cur.name].type \in {"kNoOp", "kV8Option", "kBoolean"}
    BY <1>4 DEF ApplyFlag, TakesValue, HasField
  <2>3. Taken(<<>>) /\ args' = args
    BY <1>4, <2>2 DEF Apply, ApplyFlag, Accept, Taken
  <2> QED
    BY <2>1, <2>3
<1>5. CASE ApplyValue
  <2>1. HasValue
    BY <1>2, <1>5 DEF Apply, ApplyValue, Reject, Refused
  <2>2. cur.eq /\ cur.text # <<>>
    BY <1>1, <2>1 DEF HasValue
  <2>3. Value = cur.text
    BY <2>2 DEF Value
  <2>4. Taken(cur.text) /\ args' = args
    BY <1>5, <2>1, <2>2, <2>3 DEF Apply, ApplyValue, Accept, Taken
  <2> QED
    BY <2>2, <2>4
<1> QED
  BY <1>3, <1>4, <1>5 DEF Apply

\* Applying a plain word makes of it what it says.
LEMMA ParsingApplied ==
  ASSUME Types, Parsing, Apply, errors' = {}, SpelledOut, phase \in {"env", "cmd"}
  PROVE  /\ args' = args /\ pc' = "loop" /\ phase' = phase /\ start' = start
         /\ \A f \in Profiled : LastSaid(f, Unapplied', Now(f)') = LastSaid(f, Unapplied, Now(f))
         /\ \A f \in Dirs : (Now(f) # <<>> \/ \E i \in DOMAIN Unapplied : Unapplied[i].name = f) =>
                              Now(f)' # <<>> \/ \E i \in DOMAIN Unapplied' : Unapplied'[i].name = f
<1>1. errors = {} /\ pc = "apply"
  BY DEF Apply, Types, Working
<1>2. \A i \in DOMAIN args : Plain(args[i])
  BY <1>1 DEF Parsing
<1>3. PICK text : /\ Taken(text) /\ args' = args
                  /\ cur.name \in Dirs \cup {"--diagnostic-dir"} => text = cur.text /\ text # <<>>
  BY <1>2, ApplyPlain
<1>4. pc' = "loop" /\ phase' = phase /\ start' = start /\ written' = Writes(cur, text)
  BY <1>3 DEF Taken
<1>5. Unapplied = <<cur>> \o args /\ Unapplied' = args
  BY <1>1, <1>3, <1>4 DEF Unapplied
<1>6. cur \in StartWords /\ args \in Seq(StartWords)
  BY DEF Types, Worded
<1>7. Unapplied \in Seq(StartWords) /\ Unapplied # <<>> /\ Head(Unapplied) = cur /\ Tail(Unapplied) = args
  <2> HIDE DEF StartWords
  <2> QED
    BY <1>5, <1>6
<1>8. ASSUME NEW f \in Profiled
      PROVE  Now(f)' = IF cur.name = f THEN Says(cur) ELSE Now(f)
  <2>1. CASE cur.name # f
    <3>1. Kept(f)
      BY <1>3, <2>1, NamedStep, ProfiledTold
    <3> QED
      BY <2>1, <3>1 DEF Kept, Now
  <2>2. CASE cur.name = f
    <3>1. /\ f \in Switches \ {"--debug", "--debug-brk"} \/ f \in Strings
          /\ f \in Switches => OptionInfo[f].type = "kBoolean"
          /\ f \in Strings => OptionInfo[f].type = "kString" /\ f \in Dirs \cup {"--diagnostic-dir"}
      <4>1. /\ f \in {"--cpu-prof", "--heap-prof"} \/ f \in Dirs \cup {"--diagnostic-dir"}
            /\ {"--cpu-prof", "--heap-prof"} \subseteq Switches \ ({"--debug", "--debug-brk"} \cup Strings)
            /\ Dirs \cup {"--diagnostic-dir"} \subseteq Strings \ Switches
        BY DEF Profiled, Dirs, Switches, Strings
      <4> HIDE DEF Profiled, Dirs, Switches, Strings
      <4> QED
        BY <4>1, ProfiledTold
    <3>2. OwnFields(cur) = {f} /\ OwnValue(cur, text) = Says(cur)
      BY <1>3, <2>2, <3>1, NamedOwn DEF Says
    <3>3. f \in DOMAIN written' /\ written'[f] = OwnValue(cur, text)
      BY <1>4, <3>2, OwnWritten
    <3> QED
      BY <2>2, <3>2, <3>3 DEF Now, Lookup
  <2> QED
    BY <2>1, <2>2
<1>9. ASSUME NEW f \in Profiled PROVE LastSaid(f, Unapplied', Now(f)') = LastSaid(f, Unapplied, Now(f))
  BY <1>5, <1>7, <1>8, LastOfTail
<1>10. ASSUME NEW f \in Dirs, Now(f) # <<>> \/ \E i \in DOMAIN Unapplied : Unapplied[i].name = f
       PROVE  Now(f)' # <<>> \/ \E i \in DOMAIN Unapplied' : Unapplied'[i].name = f
  <2>1. f \in Profiled
    BY DEF Dirs, Profiled
  <2>2. CASE cur.name = f
    <3>1. Says(cur) = cur.text /\ cur.text # <<>>
      BY <1>3, <2>2, ProfiledTold DEF Says
    <3> QED
      BY <1>8, <2>1, <2>2, <3>1
  <2>3. CASE cur.name # f /\ Now(f) # <<>>
    BY <1>8, <2>1, <2>3
  <2>4. CASE cur.name # f /\ \E i \in DOMAIN Unapplied : Unapplied[i].name = f
    <3>1. PICK i \in DOMAIN Unapplied : Unapplied[i].name = f
      BY <2>4
    <3>2. Unapplied[1] = cur
      BY <1>7
    <3>3. i \in 2 .. Len(Unapplied)
      BY <1>7, <2>4, <3>1, <3>2
    <3>4. i - 1 \in DOMAIN Tail(Unapplied) /\ Tail(Unapplied)[i - 1] = Unapplied[i]
      <4> HIDE DEF StartWords
      <4> QED
        BY <1>7, <3>3
    <3> QED
      BY <1>5, <1>7, <3>1, <3>4
  <2> QED
    BY <1>10, <2>2, <2>3, <2>4
<1> QED
  BY <1>3, <1>4, <1>9, <1>10

\* A process starts by a check that finds nothing.
LEMMA Starting ==
  ASSUME Types, [Next]_vars, phase' = "started"
  PROVE  UNCHANGED vars \/ (CheckOptions /\ errors' = {})
<1>1. pc \in {"loop", "alias", "apply", "over"} => phase # "started"
  BY DEF Types, Working
<1>2. ~HandleEnvOptions
  BY DEF HandleEnvOptions
<1>3. ~PopFirst /\ ~EndOfOptions /\ ~ExpandAlias /\ ~Apply
  BY <1>1 DEF PopFirst, EndOfOptions, ExpandAlias, Apply
<1>4. CheckOptions => errors' = {}
  BY CheckCases
<1> QED
  BY <1>2, <1>3, <1>4 DEF Next

\* Where no message is raised, no condition of one holds.
LEMMA NoneRaised ==
  ASSUME NEW messages, Raised(messages) = {}, NEW m \in messages
  PROVE  ~m[2]
<1>1. m \notin {n \in messages : n[2]}
  BY DEF Raised
<1> QED
  BY <1>1

\* What a check that finds nothing has seen.
LEMMA ProcessChecked ==
  ASSUME ProcessErrors(written) = {}
  PROVE  /\ ~(Lookup(written, "--use-openssl-ca") /\ Lookup(written, "--use-bundled-ca"))
         /\ Lookup(written, "--secure-heap") >= 2 =>
              PowerOfTwo(Lookup(written, "--secure-heap")) /\ PowerOfTwo(HeapMin(written))
<1> DEFINE heap == Lookup(written, "--secure-heap")
           both == Lookup(written, "--use-openssl-ca") /\ Lookup(written, "--use-bundled-ca")
           odd == heap >= 2 /\ ~PowerOfTwo(heap)
           oddMin == heap >= 2 /\ ~PowerOfTwo(HeapMin(written))
           pages == Lookup(written, "--use-largepages") \notin {<<"off">>, <<"on">>, <<"silent">>}
           messages == {<<"--use-openssl-ca", both>>, <<"--secure-heap", odd>>,
                        <<"--secure-heap-min", oddMin>>, <<"--use-largepages", pages>>}
<1>1. Raised(messages) = {}
  BY DEF ProcessErrors
<1> HIDE DEF heap, both, odd, oddMin, pages
<1>2. \A m \in messages : ~m[2]
  BY <1>1, NoneRaised
<1>3. ~<<"--use-openssl-ca", both>>[2] /\ ~<<"--secure-heap", odd>>[2] /\ ~<<"--secure-heap-min", oddMin>>[2]
  BY <1>2
<1>4. ~both /\ ~odd /\ ~oddMin
  BY <1>3
<1> QED
  BY <1>4 DEF both, odd, oddMin, heap

\* What the fields of an environment are if its CheckOptions finds no fault.
LEMMA EnvironmentChecked ==
  ASSUME NEW nofile \in BOOLEAN, EnvironmentErrors(written, nofile) = {}
  PROVE  /\ Lookup(written, "[has_eval_string]") =>
              ~Lookup(written, "--check") /\ ~Lookup(written, "--test") /\ ~Lookup(written, "--watch")
         /\ ProfileErrors(written, CpuProf) = {} /\ ProfileErrors(written, HeapProf) = {}
         /\ Entries(Lookup(written, "--inspect-publish-uid"), ",") \subseteq {<<"stderr">>, <<"http">>}
<1> DEFINE check == Lookup(written, "--check")
           eval == Lookup(written, "[has_eval_string]")
           tls == Lookup(written, "--tls-min-v1.3") /\ Lookup(written, "--tls-max-v1.2")
           limit == Lookup(written, "--heapsnapshot-near-heap-limit") < 0
           checkAndEval == check /\ eval
           messages == {<<"--check", checkAndEval>>, <<"--tls-min-v1.3", tls>>,
                        <<"--heapsnapshot-near-heap-limit", limit>>}
           uid == ~(Entries(Lookup(written, "--inspect-publish-uid"), ",")
                      \subseteq {<<"stderr">>, <<"http">>})
<1>1. /\ Raised(messages) = {}
      /\ Lookup(written, "--test") => TestErrors(written) = {}
      /\ Lookup(written, "--watch") => WatchErrors(written, nofile) = {}
      /\ ProfileErrors(written, CpuProf) = {} /\ ProfileErrors(written, HeapProf) = {}
      /\ DebugErrors(written) = {}
  BY Zenon DEF EnvironmentErrors
<1>2. ~checkAndEval
  <2> HIDE DEF checkAndEval, tls, limit
  <2>1. ~<<"--check", checkAndEval>>[2]
    BY <1>1, NoneRaised
  <2> QED
    BY <2>1
<1>3. Lookup(written, "--test") => ~eval
  <2> SUFFICES ASSUME TestErrors(written) = {} PROVE ~eval
    BY <1>1
  <2>1. \E rest : TestErrors(written) = Raised(rest) /\ <<"--eval", eval>> \in rest
    BY DEF TestErrors
  <2> HIDE DEF eval
  <2>2. ~<<"--eval", eval>>[2]
    BY <2>1, NoneRaised
  <2> QED
    BY <2>2
<1>4. Lookup(written, "--watch") => ~eval
  <2> SUFFICES ASSUME WatchErrors(written, nofile) = {} PROVE ~eval
    BY <1>1
  <2>1. \E rest : WatchErrors(written, nofile) = Raised(rest) /\ <<"--eval", eval>> \in rest
    BY DEF WatchErrors
  <2> HIDE DEF eval
  <2>2. ~<<"--eval", eval>>[2]
    BY <2>1, NoneRaised
  <2> QED
    BY <2>2
<1>5. ~uid
  <2>1. \E rest : DebugErrors(written) = Raised(rest) /\ <<"--inspect-publish-uid", uid>> \in rest
    BY DEF DebugErrors
  <2> HIDE DEF uid
  <2>2. ~<<"--inspect-publish-uid", uid>>[2]
    BY <1>1, <2>1, NoneRaised
  <2> QED
    BY <2>2
<1> QED
  BY <1>1, <1>2, <1>3, <1>4, <1>5

\* What a check that finds nothing leaves.
LEMMA Checking ==
  ASSUME Types, CheckOptions, errors' = {}
  PROVE  /\ written' = Checked(written) /\ ProcessErrors(written) = {}
         /\ \E nofile \in BOOLEAN : EnvironmentErrors(written, nofile) = {}
         /\ \A f : f \notin Checkable => Now(f)' = Now(f)
         /\ \A f \in Checkable \ {"--secure-heap-min"} :
              f \in DOMAIN written' /\ Now(f)' = written'[f]
<1>1. written' = Checked(written)
  BY CheckCases
<1>2. /\ ProcessErrors(written) = {}
      /\ \E nofile \in BOOLEAN : EnvironmentErrors(written, nofile) = {}
  BY CheckCases
<1>3. \A f : f \notin Checkable => Now(f)' = Now(f)
  BY <1>1, CheckedKeeps DEF Now
<1>4. \A f \in Checkable \ {"--secure-heap-min"} : f \in DOMAIN written' /\ Now(f)' = written'[f]
  BY <1>1, CheckedFields, SettledFields DEF Now, Lookup
<1> QED
  BY <1>1, <1>2, <1>3, <1>4

\* The first words of a start are not parsed yet.
LEMMA ParsingInit == Init => Parsing
BY DEF Init, Parsing

\* A step that only moves words keeps what is to come of them.
LEMMA ParsingMoved ==
  ASSUME Parsing, UNCHANGED <<start, phase, written>>, Unapplied' = Unapplied, errors' = {} => errors = {},
         SpelledOut /\ errors = {} /\ phase \in {"env", "cmd"} =>
           /\ \A i \in DOMAIN args' : Plain(args'[i])
           /\ pc' \in {"alias", "apply"} => Plain(cur')
           /\ pc' = "over" => args' = <<>>
  PROVE  Parsing'
<1>1. \A f : Now(f)' = Now(f) /\ FirstValue(f)' = FirstValue(f)
  BY DEF Now, FirstValue, FirstDir
<1>2. SpelledOut' <=> SpelledOut
  BY DEF SpelledOut, Words
<1> QED
  BY <1>1, <1>2 DEF Parsing

\* When NODE_OPTIONS is read and checked, the fields are the first values.
LEMMA ParsingChecked ==
  ASSUME Types, Parsing, CheckOptions, errors' = {}, phase = "env", SpelledOut, NEW f \in Profiled
  PROVE  Now(f)' = FirstValue(f)
<1>1. pc = "over" /\ errors = {}
  BY CheckCases
<1>2. Unapplied = <<>>
  BY <1>1 DEF Parsing, Unapplied
<1>3. \A g \in Profiled : Now(g) = Said(g, start.env)
  BY <1>1, <1>2, LastOfNone DEF Parsing
<1>4. ASSUME NEW profile \in {CpuProf, HeapProf} PROVE ProfileDir(written, profile) = FirstDir(profile)
  <2>1. profile.on \in Profiled /\ profile.dir \in Profiled /\ "--diagnostic-dir" \in Profiled
    BY ProfiledTold DEF Profiled
  <2> QED
    BY <1>3, <2>1 DEF ProfileDir, FirstDir, Now
<1>5. CASE f \in Dirs
  <2>1. f \in Checkable \ {"--secure-heap-min"}
    BY <1>5 DEF Dirs, Checkable
  <2>2. Now(f)' = Checked(written)[f]
    BY <2>1, Checking
  <2> QED
    BY <1>4, <1>5, <2>2, CheckedFields, ProfiledTold DEF Dirs, FirstValue
<1>6. CASE f \notin Dirs
  <2>1. Now(f)' = Now(f)
    BY <1>6, Checking, ProfiledTold
  <2> QED
    BY <1>3, <1>6, <2>1, ProfiledTold DEF Dirs, FirstValue
<1> QED
  BY <1>5, <1>6

\* No step of the parser changes what is to come of the words.
LEMMA ParsingNext == Types /\ Parsing /\ [Next]_vars => Parsing'
<1> SUFFICES ASSUME Types, Parsing, [Next]_vars PROVE Parsing'
  OBVIOUS
<1>s. start \in Starts /\ args \in Seq(StartWords) /\ start.env \in Seq(StartWords)
  BY StartTold DEF Types, Worded
<1> HIDE DEF StartWords
<1>w. pc \in {"loop", "alias", "apply", "over"} => phase \in {"env", "cmd"}
  BY DEF Types, Working, TypeOK
<1>1. CASE HandleEnvOptions
  <2>1. start' = start /\ pc' = "loop"
    BY <1>1 DEF HandleEnvOptions
  <2>2. \A f \in Profiled : Now(f)' = InitialValue(f)
    <3>1. DOMAIN written' = {"--pending-deprecation", "--preserve-symlinks", "--preserve-symlinks-main",
                             "--redirect-warnings"}
      BY <1>1 DEF HandleEnvOptions, :>, @@
    <3> QED
      BY <3>1 DEF Profiled, Now, Lookup
  <2>3. Unapplied' = args'
    BY <2>1 DEF Unapplied
  <2>4. CASE phase' = "env" /\ args' = start.env
    <3>1. SpelledOut' => \A i \in DOMAIN args' : Plain(args'[i])
      BY <1>s, <2>1, <2>4, AllPlain DEF SpelledOut, Words
    <3> QED
      BY <2>1, <2>2, <2>3, <2>4, <3>1 DEF Parsing, Said
  <2>5. CASE start.env = <<>> /\ phase' = "cmd" /\ args' = start.cmd
    <3>1. SpelledOut' => \A i \in DOMAIN args' : Plain(args'[i])
      BY <1>s, <2>1, <2>5, AllPlain DEF SpelledOut, Words
    <3>2. \A f : Said(f, start.env) = InitialValue(f)
      BY <2>5, LastOfNone DEF Said
    <3>3. \A profile \in {CpuProf, HeapProf} : FirstDir(profile) = InitialValue(profile.dir)
      BY <3>2, ProfiledTold DEF FirstDir
    <3>4. \A f \in Profiled : FirstValue(f)' = InitialValue(f)
      BY <2>1, <3>2, <3>3 DEF FirstValue, FirstDir
    <3> QED
      BY <2>1, <2>2, <2>3, <2>5, <3>1, <3>4 DEF Parsing
  <2> QED
    BY <1>1, <2>4, <2>5 DEF HandleEnvOptions
<1>2. CASE PopFirst
  <2>1. /\ pc = "loop" /\ args # <<>> /\ errors = {} /\ UNCHANGED <<start, phase, written>>
        /\ cur' = Head(args) /\ args' = Tail(args)
    BY <1>2 DEF PopFirst
  <2>2. Head(args) = args[1] /\ 1 \in DOMAIN args /\ <<Head(args)>> \o Tail(args) = args
        /\ \A i \in DOMAIN Tail(args) : i + 1 \in DOMAIN args /\ Tail(args)[i] = args[i + 1]
    BY <1>s, <2>1
  <2>3. CASE Head(args).name = "--"
    <3>1. ~Plain(Head(args))
      BY <2>3 DEF Plain
    <3>2. ~SpelledOut
      BY <1>w, <2>1, <2>2, <3>1 DEF Parsing
    <3>3. ~SpelledOut'
      BY <2>1, <3>2 DEF SpelledOut, Words
    <3> QED
      BY <3>3 DEF Parsing
  <2>4. CASE Head(args).name # "--"
    <3>1. pc' = "alias" /\ errors' = errors
      BY <1>2, <2>4 DEF PopFirst
    <3>2. Unapplied' = Unapplied
      BY <2>1, <2>2, <3>1 DEF Unapplied
    <3>3. SpelledOut /\ errors = {} /\ phase \in {"env", "cmd"} =>
            Plain(cur') /\ \A i \in DOMAIN args' : Plain(args'[i])
      BY <2>1, <2>2 DEF Parsing
    <3> QED
      BY <2>1, <3>1, <3>2, <3>3, ParsingMoved
  <2> QED
    BY <2>3, <2>4
<1>3. CASE EndOfOptions
  <2>1. /\ pc = "loop" /\ pc' = "over" /\ UNCHANGED <<start, phase, args, written, errors>>
        /\ (args # <<>> /\ errors = {}) => Head(args).name = "argument"
    BY <1>3 DEF EndOfOptions
  <2>2. Unapplied' = Unapplied
    BY <2>1 DEF Unapplied
  <2>3. SpelledOut /\ errors = {} /\ phase \in {"env", "cmd"} =>
          args = <<>> /\ \A i \in DOMAIN args : Plain(args[i])
    <3>1. args # <<>> => Head(args) = args[1] /\ 1 \in DOMAIN args
      BY <1>s
    <3> QED
      BY <2>1, <3>1 DEF Parsing, Plain
  <2> QED
    BY <2>1, <2>2, <2>3, ParsingMoved
<1>4. CASE ExpandAlias
  <2>1. pc = "alias" /\ pc' \in {"alias", "apply"} /\ UNCHANGED <<start, phase, written, errors>>
    BY <1>4 DEF ExpandAlias, AfterExpansion
  <2>2. CASE SpelledOut /\ errors = {}
    <3>1. Plain(cur)
      BY <1>w, <2>1, <2>2 DEF Parsing
    <3>2. \A a \in aliases_ : a.from # cur.name
      BY <3>1 DEF Plain
    <3>3. cur' = cur /\ args' = args
      BY <1>4, <3>2 DEF ExpandAlias
    <3>4. Unapplied' = Unapplied
      BY <2>1, <3>3 DEF Unapplied
    <3>5. \A i \in DOMAIN args : Plain(args[i])
      BY <1>w, <2>1, <2>2 DEF Parsing
    <3> QED
      BY <2>1, <3>1, <3>3, <3>4, <3>5, ParsingMoved
  <2>3. CASE ~(SpelledOut /\ errors = {})
    BY <2>1, <2>3 DEF Parsing, SpelledOut, Words
  <2> QED
    BY <2>2, <2>3
<1>5. CASE Apply
  <2> SUFFICES ASSUME SpelledOut', errors' = {} PROVE Parsing'
    BY DEF Parsing
  <2>1. start' = start /\ phase' = phase /\ pc = "apply"
    BY <1>5 DEF Apply
  <2>2. SpelledOut /\ phase \in {"env", "cmd"}
    BY <1>w, <2>1 DEF SpelledOut, Words
  <2>3. /\ args' = args /\ pc' = "loop"
        /\ \A f \in Profiled : LastSaid(f, Unapplied', Now(f)') = LastSaid(f, Unapplied, Now(f))
        /\ \A f \in Dirs : (Now(f) # <<>> \/ \E i \in DOMAIN Unapplied : Unapplied[i].name = f) =>
                             Now(f)' # <<>> \/ \E i \in DOMAIN Unapplied' : Unapplied'[i].name = f
    BY <1>5, <2>2, ParsingApplied
  <2>4. errors = {}
    BY <2>1 DEF Types, Working
  <2>5. \A f : FirstValue(f)' = FirstValue(f)
    BY <2>1 DEF FirstValue, FirstDir
  <2> QED
    BY <2>1, <2>2, <2>3, <2>4, <2>5 DEF Parsing
<1>6. CASE CheckOptions
  <2> SUFFICES ASSUME SpelledOut', errors' = {}, phase' \in {"env", "cmd"} PROVE Parsing'
    BY DEF Parsing
  <2>1. /\ start' = start /\ phase = "env" /\ phase' = "cmd" /\ args' = start.cmd /\ pc' = "loop"
    BY <1>6, CheckCases
  <2>2. SpelledOut
    BY <2>1 DEF SpelledOut, Words
  <2>3. \A f \in Profiled : Now(f)' = FirstValue(f)'
    <3>1. \A f : FirstValue(f)' = FirstValue(f)
      BY <2>1 DEF FirstValue, FirstDir
    <3> QED
      BY <1>6, <2>1, <2>2, <3>1, ParsingChecked
  <2>4. Unapplied' = start.cmd
    BY <2>1 DEF Unapplied
  <2>5. \A i \in DOMAIN args' : Plain(args'[i])
    BY <1>s, <2>1, <2>2, AllPlain
  <2> QED
    BY <2>1, <2>3, <2>4, <2>5 DEF Parsing
<1>7. CASE UNCHANGED vars
  <2>1. \A f : Now(f)' = Now(f) /\ FirstValue(f)' = FirstValue(f)
    BY <1>7 DEF vars, Now, FirstValue, FirstDir
  <2>2. Unapplied' = Unapplied /\ (SpelledOut' <=> SpelledOut)
    BY <1>7 DEF vars, Unapplied, SpelledOut, Words
  <2> QED
    BY <1>7, <2>1, <2>2 DEF vars, Parsing
<1> QED
  BY <1>1, <1>2, <1>3, <1>4, <1>5, <1>6, <1>7 DEF Next

\* The inductive invariant of a start.
Known == Types /\ Confined /\ Sourced /\ Following /\ PortKept /\ DebuggerKnown /\ Parsing

\* Known at first.
LEMMA KnownInit == Init => Known
BY TypesInit, ConfinedInit, SourcedInit, FollowingInit, PortInit, DebuggerInit, ParsingInit DEF Known

\* And after each step.
LEMMA KnownNext == Known /\ [Next]_vars => Known'
BY TypesNext, ConfinedNext, SourcedNext, FollowingNext, PortNext, DebuggerNext, ParsingNext DEF Known

\* The last CheckOptions leaves a secure heap that is sane.
LEMMA HeapSettled ==
  ASSUME Types, CheckOptions, errors' = {}
  PROVE  SecureHeapSane'
<1> SUFFICES ASSUME Now("--secure-heap")' >= 2
             PROVE  LET min == Now("--secure-heap-min")' IN
                    /\ PowerOfTwo(Now("--secure-heap")') /\ PowerOfTwo(min)
                    /\ 2 <= min /\ min <= Now("--secure-heap")' /\ min <= IntMax
  BY DEF SecureHeapSane, PowerOfTwo
<1>1. Now("--secure-heap")' = Lookup(written, "--secure-heap")
  <2>1. "--secure-heap" \notin Checkable
    BY DEF Checkable
  <2> QED
    BY <2>1, Checking DEF Now
<1>2. Now("--secure-heap-min")' = HeapMin(written)
  <2>1. "--secure-heap-min" \in DOMAIN Checked(written)
    BY <1>1, CheckedFields, SettledFields
  <2> QED
    BY <1>1, <2>1, Checking, CheckedFields DEF Now, Lookup
<1>3. FieldsTyped /\ ProcessErrors(written) = {}
  BY Checking, TypedFields DEF Types
<1> QED
  BY <1>1, <1>2, <1>3, HeapMinBounded, ProcessChecked

\* When the command line is read, the directory of a profile that is taken is
\* what the words say.
LEMMA DirSettled ==
  ASSUME Types, Parsing, CheckOptions, errors' = {}, phase = "cmd", SpelledOut,
         NEW profile \in {CpuProf, HeapProf}, Lookup(written, profile.on)
  PROVE  ProfileDir(written, profile) = DirOf(profile)
<1> DEFINE dir == profile.dir
           diag == "--diagnostic-dir"
           env == start.env
           cmd == start.cmd
<1>1. /\ dir \in Dirs /\ dir \in Profiled /\ profile.on \in Profiled /\ diag \in Profiled
      /\ FirstValue(dir) = FirstDir(profile) /\ FirstValue(diag) = Said(diag, env)
  BY ProfiledTold DEF Profiled, Dirs, FirstValue
<1>2. pc = "over" /\ errors = {}
  BY CheckCases
<1>3. Unapplied = <<>>
  BY <1>2 DEF Parsing, Unapplied
<1>4. /\ Now(dir) = LastSaid(dir, cmd, FirstDir(profile))
      /\ Now(diag) = LastSaid(diag, cmd, Said(diag, env))
      /\ (\E i \in DOMAIN cmd : cmd[i].name = dir) => Now(dir) # <<>>
  BY <1>1, <1>2, <1>3, LastOfNone DEF Parsing
<1>5. \A f : Said(f, Words) = LastSaid(f, cmd, Said(f, env))
  <2>1. env \in Seq(StartWords) /\ cmd \in Seq(StartWords)
    BY StartTold DEF Types, Worded
  <2> HIDE DEF StartWords
  <2> QED
    BY <2>1, LastOfBoth DEF Said, Words
<1>6. ProfileDir(written, profile) = IF Now(dir) = <<>> THEN Now(diag) ELSE Now(dir)
  BY DEF ProfileDir, Now
<1>7. CASE \E i \in DOMAIN cmd : cmd[i].name = dir
  <2>1. \A u, v : LastSaid(dir, cmd, u) = LastSaid(dir, cmd, v)
    BY <1>7 DEF LastSaid
  <2>2. Said(dir, Words) = Now(dir)
    BY <1>4, <1>5, <2>1
  <2> QED
    BY <1>4, <1>6, <1>7, <2>2 DEF DirOf
<1>8. CASE ~\E i \in DOMAIN cmd : cmd[i].name = dir
  <2>1. \A v : LastSaid(dir, cmd, v) = v
    BY <1>8 DEF LastSaid
  <2>2. Said(dir, Words) = Said(dir, env) /\ Now(dir) = FirstDir(profile)
    BY <1>4, <1>5, <2>1
  <2>3. Said(diag, Words) = Now(diag)
    BY <1>4, <1>5
  <2>4. CASE Said(dir, env) # <<>>
    BY <1>6, <2>2, <2>4 DEF DirOf, FirstDir
  <2>5. CASE Said(dir, env) = <<>>
    <3>1. Now(dir) = KeptDir(profile)
      BY <2>2, <2>5 DEF FirstDir, KeptDir
    <3> QED
      BY <1>6, <2>2, <2>3, <2>5, <3>1 DEF DirOf
  <2> QED
    BY <2>4, <2>5
<1> QED
  BY <1>7, <1>8

\* It gives every profile that is taken its place, and no other one.
LEMMA ProfilesSettled ==
  ASSUME Types, Parsing, CheckOptions, errors' = {}, phase' = "started"
  PROVE  ProfilesPlaced'
<1> SUFFICES ASSUME NEW profile \in {CpuProf, HeapProf}
             PROVE  IF Now(profile.on)' THEN SpelledOut' => Now(profile.dir)' = DirOf(profile)'
                    ELSE Now(profile.dir)' = <<>> /\ Now(profile.name)' = <<>>
  BY DEF ProfilesPlaced
<1>1. /\ profile.dir \in {"--cpu-prof-dir", "--heap-prof-dir"}
      /\ profile.name \in {"--cpu-prof-name", "--heap-prof-name"}
      /\ profile.on \in {"--cpu-prof", "--heap-prof"}
  BY ProfiledTold
<1>2. Now(profile.dir)' = ProfileDir(written, profile)
  <2>1. {"--cpu-prof-dir", "--heap-prof-dir"} \subseteq Checkable \ {"--secure-heap-min"}
    BY DEF Checkable
  <2> QED
    BY <1>1, <2>1, Checking, CheckedFields, ProfiledTold
<1>3. Now(profile.on)' = Lookup(written, profile.on) /\ Now(profile.name)' = Lookup(written, profile.name)
  <2>1. profile.on \notin Checkable /\ profile.name \notin Checkable
    BY <1>1 DEF Checkable
  <2> QED
    BY <2>1, Checking DEF Now
<1>4. ProfileErrors(written, profile) = {}
  BY Checking, EnvironmentChecked
<1>5. InitialValue(profile.dir) = <<>> /\ InitialValue(profile.name) = <<>>
  BY <1>1, Initially DEF Strings
<1>6. CASE ~Lookup(written, profile.on)
  <2>1. \A name \in {profile.name, profile.dir} : Lookup(written, name) = InitialValue(name)
    BY <1>4, <1>6 DEF ProfileErrors
  <2>2. ProfileDir(written, profile) = Lookup(written, profile.dir)
    BY <1>6 DEF ProfileDir
  <2> QED
    BY <1>2, <1>3, <1>5, <1>6, <2>1, <2>2
<1>7. CASE Lookup(written, profile.on)
  <2> SUFFICES ASSUME SpelledOut' PROVE Now(profile.dir)' = DirOf(profile)'
    BY <1>3, <1>7
  <2>1. start' = start /\ phase = "cmd"
    <3>1. pc = "over" /\ start' = start /\ phase # "env"
      BY CheckCases
    <3> QED
      BY <3>1 DEF Types, Working, TypeOK
  <2>2. SpelledOut /\ DirOf(profile)' = DirOf(profile)
    BY <2>1 DEF SpelledOut, DirOf, KeptDir, Words
  <2> QED
    BY <1>2, <1>7, <2>1, <2>2, DirSettled
<1> QED
  BY <1>6, <1>7

\* The destinations are those of the last word for them.
LEMMA UidSettled ==
  ASSUME Types, CheckOptions, errors' = {}
  PROVE  UidFollowsLast'
<1> DEFINE entries == Entries(Lookup(written, "--inspect-publish-uid"), ",")
<1>1. Now("inspect_publish_uid")' = PublishUid(written)
  <2>1. "inspect_publish_uid" \in Checkable \ {"--secure-heap-min"}
    BY DEF Checkable
  <2> QED
    BY <2>1, Checking, CheckedFields
<1>2. Now("--inspect-publish-uid")' = Lookup(written, "--inspect-publish-uid")
  <2>1. "--inspect-publish-uid" \notin Checkable
    BY DEF Checkable
  <2> QED
    BY <2>1, Checking DEF Now
<1>3. entries \subseteq {<<"stderr">>, <<"http">>}
  BY Checking, EnvironmentChecked
<1>4. PublishUid(written) = {e[1] : e \in entries}
  <2>1. PublishUid(written) = {e[1] : e \in entries \cap {<<"stderr">>, <<"http">>}}
    BY DEF PublishUid
  <2>2. entries \cap {<<"stderr">>, <<"http">>} = entries
    BY <1>3, Zenon
  <2> HIDE DEF entries
  <2> QED
    BY <2>1, <2>2
<1>5. {<<d>> : d \in PublishUid(written)} = entries
  <2> HIDE DEF entries
  <2>1. \A e \in entries : e = <<e[1]>>
    BY <1>3
  <2> QED
    BY <1>4, <2>1
<1> QED
  BY <1>1, <1>2, <1>5 DEF UidFollowsLast

\* A debugger may attach unless something that is on forbids it.
LEMMA DebuggerSettled ==
  ASSUME Types, DebuggerKnown, CheckOptions, errors' = {}
  PROVE  DebuggerKept'
<1> DEFINE watch == Lookup(written, "--watch")
           test == Lookup(written, "--test")
           none == Lookup(written, "--test-isolation") = <<"none">>
           attach == Lookup(written, "allow_attaching_debugger")
<1>1. Now("allow_attaching_debugger")' = Debugger(written)
  <2>1. "allow_attaching_debugger" \in Checkable \ {"--secure-heap-min"}
    BY DEF Checkable
  <2> QED
    BY <2>1, Checking, CheckedFields
<1>2. /\ Now("--watch")' = watch /\ Now("--test")' = test
      /\ Now("--test-isolation")' = Lookup(written, "--test-isolation")
  <2>1. {"--watch", "--test", "--test-isolation"} \cap Checkable = {}
    BY DEF Checkable
  <2> QED
    BY <2>1, Checking DEF Now
<1>3. \A n, b : Given(n, b)' = Given(n, b)
  BY CheckCases DEF Given, Words
<1>4. attach = TRUE \/ Given("--watch", FALSE) \/ Given("--watch-path", FALSE)
  BY CheckCases DEF DebuggerKnown, Now, Types, Working
<1> HIDE DEF watch, test, none, attach
<1>5. /\ watch => Debugger(written) = FALSE
      /\ ~watch /\ test => Debugger(written) = none
      /\ ~watch /\ ~test => Debugger(written) = attach
  BY DEF Debugger, watch, test, none, attach
<1>6. Debugger(written) => ~watch /\ (test => none)
  BY <1>5
<1>7. Debugger(written) \/ watch \/ test \/ Given("--watch", FALSE) \/ Given("--watch-path", FALSE)
  BY <1>4, <1>5
<1> QED
  BY <1>1, <1>2, <1>3, <1>6, <1>7 DEF DebuggerKept, none

\* What it accepts follows the implications.
LEMMA ImplicationsSettled ==
  ASSUME Types, Following, CheckOptions, errors' = {}
  PROVE  Implied'
<1> DEFINE openssl == Lookup(written, "--use-openssl-ca")
           bundled == Lookup(written, "--use-bundled-ca")
           store == Lookup(written, "[ssl_openssl_cert_store]")
<1>1. \A f \in Spoken \cup {"--check", "--test"} : Now(f)' = Now(f)
  <2>1. (Spoken \cup {"--check", "--test"}) \cap Checkable = {}
    BY DEF Spoken, Checkable
  <2> QED
    BY <2>1, Checking
<1>2. \A n, b : Given(n, b)' = Given(n, b)
  BY CheckCases DEF Given, Words
<1>3. ImplicationsHold'
  <2>1. \A f \in {"--inspect-brk", "--inspect-brk-node", "--inspect-wait", "--inspect", "--watch-path",
                  "--watch", "--experimental-transform-types", "--enable-source-maps"} : Now(f)' = Now(f)
    BY <1>1 DEF Spoken
  <2> QED
    BY <1>2, <2>1 DEF ImplicationsHold, Following, Breaks, Watches, Transforms
<1>4. EvalKnown'
  <2> SUFFICES ASSUME "--eval" \in DOMAIN written'
               PROVE  ~Now("--check")' /\ ~Now("--test")' /\ ~Now("--watch")'
    BY DEF EvalKnown
  <2>1. "--eval" \in DOMAIN written
    <3>1. "--eval" \notin Checkable
      BY DEF Checkable
    <3> QED
      BY <3>1, Checking, CheckedKeeps
  <2>2. Lookup(written, "[has_eval_string]")
    BY <2>1 DEF Following, Evaluates, Now
  <2>3. ~Lookup(written, "--check") /\ ~Lookup(written, "--test") /\ ~Lookup(written, "--watch")
    BY <2>2, Checking, EnvironmentChecked
  <2>4. Now("--check")' = Now("--check") /\ Now("--test")' = Now("--test") /\ Now("--watch")' = Now("--watch")
    BY <1>1 DEF Spoken
  <2> QED
    BY <2>3, <2>4 DEF Now
<1>5. CertStoreAgrees'
  <2>1. Negated' = Negated
    BY CheckCases DEF Negated, Words
  <2>2. /\ Now("--use-openssl-ca")' = openssl /\ Now("--use-bundled-ca")' = bundled
        /\ Now("[ssl_openssl_cert_store]")' = store
    BY <1>1 DEF Spoken, Now
  <2>3. openssl \in BOOLEAN /\ bundled \in BOOLEAN /\ store \in BOOLEAN
    BY SpokenNow, TypedFields DEF Types, Spoken
  <2>4. ~(openssl /\ bundled)
    BY Checking, ProcessChecked
  <2>5. ~Negated => (store => openssl) /\ (openssl /\ ~bundled => store)
    BY DEF Following, Stores, Now
  <2> HIDE DEF openssl, bundled, store
  <2>6. ~Negated => store = openssl
    BY <2>3, <2>4, <2>5
  <2> QED
    BY <2>1, <2>2, <2>4, <2>6 DEF CertStoreAgrees
<1> QED
  BY <1>3, <1>4, <1>5 DEF Implied

-----------------------------------------------------------------------------
\* The sizes of the secure heap are powers of two, the minimum one that fits.
THEOREM SecureHeapIsSane == Spec => []SecureHeapSane
<1>1. Init => SecureHeapSane
  BY DEF Init, SecureHeapSane, Started
<1>2. Known /\ SecureHeapSane /\ [Next]_vars => SecureHeapSane'
  <2> SUFFICES ASSUME Known, SecureHeapSane, [Next]_vars, phase' = "started" PROVE SecureHeapSane'
    BY DEF SecureHeapSane, Started
  <2>1. CASE UNCHANGED vars
    BY <2>1 DEF vars, SecureHeapSane, Started, Now, Lookup, PowerOfTwo
  <2> QED
    BY <2>1, Starting, HeapSettled DEF Known
<1> QED
  BY <1>1, <1>2, KnownInit, KnownNext, PTL DEF Spec

\* A profile that is taken goes where the last of its words says, else where the
\* diagnostics of the pass that settled it go; one that is not has no place.
THEOREM ProfilesArePlaced == Spec => []ProfilesPlaced
<1>1. Init => ProfilesPlaced
  BY DEF Init, ProfilesPlaced, Started
<1>2. Known /\ ProfilesPlaced /\ [Next]_vars => ProfilesPlaced'
  <2> SUFFICES ASSUME Known, ProfilesPlaced, [Next]_vars, phase' = "started" PROVE ProfilesPlaced'
    BY DEF ProfilesPlaced, Started
  <2>1. CASE UNCHANGED vars
    <3>1. \A f : Now(f)' = Now(f)
      BY <2>1 DEF vars, Now, Lookup
    <3>2. (SpelledOut' <=> SpelledOut) /\ \A profile : DirOf(profile)' = DirOf(profile)
      BY <2>1 DEF vars, SpelledOut, DirOf, KeptDir, Words
    <3> QED
      BY <2>1, <3>1, <3>2 DEF vars, ProfilesPlaced, Started
  <2> QED
    BY <2>1, Starting, ProfilesSettled DEF Known
<1> QED
  BY <1>1, <1>2, KnownInit, KnownNext, PTL DEF Spec

\* What the inspector does is settled by the last words about it.
THEOREM InspectorIsSettled == Spec => []InspectorSettled
<1>1. Init => InspectorSettled
  BY DEF Init, InspectorSettled, UidFollowsLast, DebuggerKept, PortValid, Started
<1>2. Known /\ InspectorSettled /\ [Next]_vars => InspectorSettled'
  <2> SUFFICES ASSUME Known, InspectorSettled, [Next]_vars, phase' = "started" PROVE InspectorSettled'
    BY DEF InspectorSettled, UidFollowsLast, DebuggerKept, PortValid, Started
  <2>1. CASE UNCHANGED vars
    <3>1. \A f : Now(f)' = Now(f)
      BY <2>1 DEF vars, Now, Lookup
    <3>2. \A n, b : Given(n, b)' = Given(n, b)
      BY <2>1 DEF vars, Given, Words
    <3> QED
      BY <2>1, <3>1, <3>2
      DEF vars, InspectorSettled, UidFollowsLast, DebuggerKept, PortValid, Started
  <2>2. CASE CheckOptions /\ errors' = {}
    <3>1. PortValid'
      BY <2>2, KnownNext DEF Known, PortKept, PortValid, Ports
    <3> QED
      BY <2>2, <3>1, UidSettled, DebuggerSettled DEF Known, InspectorSettled
  <2> QED
    BY <2>1, <2>2, Starting DEF Known
<1> QED
  BY <1>1, <1>2, KnownInit, KnownNext, PTL DEF Spec

\* What is implied holds in the end, whatever the order of the words.
THEOREM ImpliedInTheEnd == Spec => []Implied
<1>1. Init => Implied
  BY DEF Init, Implied, ImplicationsHold, EvalKnown, CertStoreAgrees, Started
<1>2. Known /\ Implied /\ [Next]_vars => Implied'
  <2> SUFFICES ASSUME Known, Implied, [Next]_vars, phase' = "started" PROVE Implied'
    BY DEF Implied, ImplicationsHold, EvalKnown, CertStoreAgrees, Started
  <2>1. CASE UNCHANGED vars
    <3>1. \A f : Now(f)' = Now(f)
      BY <2>1 DEF vars, Now, Lookup
    <3>2. Negated' = Negated /\ \A n, b : Given(n, b)' = Given(n, b)
      BY <2>1 DEF vars, Negated, Given, Words
    <3> QED
      BY <2>1, <3>1, <3>2 DEF vars, Implied, ImplicationsHold, EvalKnown, CertStoreAgrees, Started
  <2> QED
    BY <2>1, Starting, ImplicationsSettled DEF Known
<1> QED
  BY <1>1, <1>2, KnownInit, KnownNext, PTL DEF Spec

\* The words that SchemaAccepted speaks of: one that the schema offers, alone in
\* NODE_OPTIONS, and none on the command line.
Lone ==
  /\ Len(start.env) = 1 /\ start.cmd = <<>>
  /\ start.env[1].name \in DOMAIN InputType /\ ~start.env[1].neg

\* That word.
Only == start.env[1]

\* Whether its option takes no value.
OnlyFlag == OptionInfo[Only.name].type = "kBoolean"

\* Whether it has the value that its option needs.
Fits == OnlyFlag \/ Only.text # <<>>

\* What may be said of it.
Acceptable ==
  /\ "not allowed" \notin errors
  /\ "requires an argument" \in errors => Only.text = <<>> /\ (Only.eq \/ ~OnlyFlag)

\* How far the parser is with it, in NODE_OPTIONS.
Parsed ==
  \/ pc = "loop" /\ args = <<Only>>
  \/ pc \in {"alias", "apply"} /\ args = <<>> /\ cur = Only
  \/ /\ pc \in {"alias", "apply"} /\ args = <<Flag(Only.name)>>
     /\ OnlyFlag /\ Only.eq /\ cur = [Only EXCEPT !.name = "--inspect-port"]
  \/ pc = "loop" /\ args = <<Flag(Only.name)>> /\ OnlyFlag
  \/ pc \in {"alias", "apply"} /\ args = <<>> /\ cur = Flag(Only.name) /\ OnlyFlag
  \/ pc = "loop" /\ args = <<>> /\ Fits
  \/ pc = "over" /\ (Fits \/ errors # {})

\* What is known of it in each phase.
LoneStages ==
  Lone =>
    /\ Acceptable
    /\ \/ phase \in {"variables", "failed"}
       \/ phase = "env" /\ Parsed
       \/ phase = "cmd" /\ pc \in {"loop", "over"} /\ args = <<>> /\ Fits
       \/ phase = "started" /\ Fits

\* What the schema offers is an option with a field that NODE_OPTIONS may have.
LEMMA Offered ==
  ASSUME NEW name \in DOMAIN InputType
  PROVE  /\ name \in OptionNames \ Barred /\ HasField(name)
         /\ InputType[name] # "boolean" <=> OptionInfo[name].type # "kBoolean"
<1> DEFINE type == OptionInfo[name].type
           Kind == CASE type = "kBoolean" -> "boolean"
                     [] type \in {"kInteger", "kUInteger", "kHostPort"} -> "number"
                     [] type = "kString" -> "string"
                     [] OTHER -> "array"
<1>1. PICK o \in options_ : o.name = name /\ o.allowed /\ o.type \notin {"kNoOp", "kV8Option"}
  BY DEF InputType
<1>2. name \in OptionNames /\ name \notin Barred
  BY <1>1, OptionsTold DEF Told, OptionNames
<1>3. name \notin Fieldless
  BY <1>1, OptionsTold DEF Told
<1>4. HasField(name)
  BY <1>2, <1>3, InfoTold DEF Told, HasField
<1>5. InputType[name] = Kind
  BY DEF InputType
<1>6. Kind # "boolean" <=> type # "kBoolean"
  OBVIOUS
<1> QED
  BY <1>2, <1>4, <1>5, <1>6

\* What is known of the word that is alone.
LEMMA LoneTold ==
  ASSUME Types, Lone
  PROVE  /\ start.env = <<Only>> /\ start.cmd = <<>> /\ Only \in StartWords
         /\ Only.name \in OptionNames \ Barred /\ Only.name \notin {"argument", "--"}
         /\ HasField(Only.name) /\ Only.neg = FALSE
         /\ InputType[Only.name] # "boolean" <=> ~OnlyFlag
         /\ Only.eq \in BOOLEAN /\ (~Only.eq => Only.text = <<>>)
<1>1. start.env \in Seq(StartWords) /\ Len(start.env) = 1 /\ start.cmd = <<>>
  BY StartTold DEF Types, Worded, Lone
<1>2. start.env = <<Only>> /\ Only \in StartWords
  BY <1>1 DEF Only
<1>3. Only.name \in DOMAIN InputType
  BY DEF Lone, Only
<1>4. /\ Only.name \in OptionNames \ Barred /\ HasField(Only.name)
      /\ InputType[Only.name] # "boolean" <=> ~OnlyFlag
  BY <1>3, Offered DEF OnlyFlag
<1>5. Only.name \notin {"argument", "--"}
  BY <1>4, NobodysNames DEF Nobody
<1>6. Only.neg = FALSE
  BY <1>2 DEF Lone, Only, StartWords
<1>7. Only.eq \in BOOLEAN /\ (~Only.eq => Only.text = <<>>)
  BY <1>2, <1>5 DEF StartWords
<1> QED
  BY <1>1, <1>2, <1>4, <1>5, <1>6, <1>7

\* The errors that are raised are among those that could be.
LEMMA RaisedNames ==
  ASSUME NEW messages, NEW names, \A x \in messages : x[1] \in names
  PROVE  Raised(messages) \subseteq names
BY DEF Raised

\* The names of what CheckOptions finds, none of which is the parser's.
Checks ==
  {"--use-openssl-ca", "--secure-heap", "--secure-heap-min", "--use-largepages", "--input-type",
   "--unhandled-rejections", "--trace-require-module", "--test-isolation", "--check", "--eval",
   "--interactive", "--watch-path", "--test-force-exit", "--watch", "--debug",
   "--inspect-publish-uid", "--tls-min-v1.3", "--heapsnapshot-near-heap-limit", "--cpu-prof-name",
   "--cpu-prof-dir", "--cpu-prof-interval", "--heap-prof-name", "--heap-prof-dir",
   "--heap-prof-interval"}

\* The errors of CheckOptions are those of Checks.
LEMMA OtherErrors ==
  ASSUME NEW nofile \in BOOLEAN
  PROVE  ProcessErrors(written) \cup EnvironmentErrors(written, nofile) \subseteq Checks
<1>1. ProcessErrors(written) \subseteq Checks
  <2>1. PICK a, b, c, d : ProcessErrors(written) =
          Raised({<<"--use-openssl-ca", a>>, <<"--secure-heap", b>>,
                  <<"--secure-heap-min", c>>, <<"--use-largepages", d>>})
    BY Zenon DEF ProcessErrors
  <2> DEFINE messages == {<<"--use-openssl-ca", a>>, <<"--secure-heap", b>>,
                         <<"--secure-heap-min", c>>, <<"--use-largepages", d>>}
  <2>2. \A x \in messages : x[1] \in Checks
    BY DEF Checks
  <2> HIDE DEF messages
  <2>3. Raised(messages) \subseteq Checks
    BY <2>2, RaisedNames
  <2> QED
    BY <2>1, <2>3 DEF messages
<1>2. WordErrors(written) \subseteq Checks
  BY DEF WordErrors, EnvironmentWords, Checks, :>, @@
<1>3. TestErrors(written) \subseteq Checks
  <2>1. PICK a, b, c, d, e : TestErrors(written) =
          Raised({<<"--test-isolation", a>>, <<"--check", b>>, <<"--eval", c>>,
                  <<"--interactive", d>>, <<"--watch-path", e>>})
    BY Zenon DEF TestErrors
  <2> DEFINE messages == {<<"--test-isolation", a>>, <<"--check", b>>, <<"--eval", c>>,
                         <<"--interactive", d>>, <<"--watch-path", e>>}
  <2>2. \A x \in messages : x[1] \in Checks
    BY DEF Checks
  <2> HIDE DEF messages
  <2>3. Raised(messages) \subseteq Checks
    BY <2>2, RaisedNames
  <2> QED
    BY <2>1, <2>3 DEF messages
<1>4. WatchErrors(written, nofile) \subseteq Checks
  <2>1. PICK a, b, c, d, e : WatchErrors(written, nofile) =
          Raised({<<"--check", a>>, <<"--eval", b>>, <<"--interactive", c>>,
                  <<"--test-force-exit", d>>, <<"--watch", e>>})
    BY Zenon DEF WatchErrors
  <2> DEFINE messages == {<<"--check", a>>, <<"--eval", b>>, <<"--interactive", c>>,
                         <<"--test-force-exit", d>>, <<"--watch", e>>}
  <2>2. \A x \in messages : x[1] \in Checks
    BY DEF Checks
  <2> HIDE DEF messages
  <2>3. Raised(messages) \subseteq Checks
    BY <2>2, RaisedNames
  <2> QED
    BY <2>1, <2>3 DEF messages
<1>5. DebugErrors(written) \subseteq Checks
  <2>1. PICK a, b : DebugErrors(written) =
          Raised({<<"--debug", a>>, <<"--inspect-publish-uid", b>>})
    BY Zenon DEF DebugErrors
  <2> DEFINE messages == {<<"--debug", a>>, <<"--inspect-publish-uid", b>>}
  <2>2. \A x \in messages : x[1] \in Checks
    BY DEF Checks
  <2> HIDE DEF messages
  <2>3. Raised(messages) \subseteq Checks
    BY <2>2, RaisedNames
  <2> QED
    BY <2>1, <2>3 DEF messages
<1>6. ProfileErrors(written, CpuProf) \subseteq Checks /\ ProfileErrors(written, HeapProf) \subseteq Checks
  BY DEF ProfileErrors, CpuProf, HeapProf, Checks
<1>7. EnvironmentErrors(written, nofile) \subseteq Checks
  <2>1. PICK a, b, c : EnvironmentErrors(written, nofile) =
          UNION {WordErrors(written),
                 Raised({<<"--check", a>>, <<"--tls-min-v1.3", b>>, <<"--heapsnapshot-near-heap-limit", c>>}),
                 IF Lookup(written, "--test") THEN TestErrors(written) ELSE {},
                 IF Lookup(written, "--watch") THEN WatchErrors(written, nofile) ELSE {},
                 ProfileErrors(written, CpuProf), ProfileErrors(written, HeapProf),
                 DebugErrors(written)}
    BY Zenon DEF EnvironmentErrors
  <2> DEFINE messages == {<<"--check", a>>, <<"--tls-min-v1.3", b>>, <<"--heapsnapshot-near-heap-limit", c>>}
  <2>2. \A x \in messages : x[1] \in Checks
    BY DEF Checks
  <2> HIDE DEF messages
  <2>3. Raised(messages) \subseteq Checks
    BY <2>2, RaisedNames
  <2> QED
    BY <1>2, <1>3, <1>4, <1>5, <1>6, <2>1, <2>3 DEF messages
<1> QED
  BY <1>1, <1>7

\* The parser's own errors are others.
LEMMA NotTheParsers == "not allowed" \notin Checks /\ "requires an argument" \notin Checks
BY DEF Checks

\* No step changes what the process was started with.
LEMMA StartKept == [Next]_vars => start' = start
<1>1. HandleEnvOptions \/ PopFirst \/ EndOfOptions \/ ExpandAlias \/ Apply => start' = start
  BY DEF HandleEnvOptions, PopFirst, EndOfOptions, ExpandAlias, Apply
<1> QED
  BY <1>1, CheckCases DEF Next, vars

\* An alias of a word that the schema offers, and what it leads to.
LEMMA LoneAlias ==
  ASSUME Types, Lone, phase = "env", Parsed, ExpandAlias
  PROVE  Parsed'
<1>1. /\ Only \in StartWords /\ Only.name \in OptionNames \ Barred
      /\ "--inspect-port" \in OptionNames \ Barred
  <2>1. "--inspect-port" \in OptionNames /\ "--inspect-port" \notin Barred
    BY NamesThere DEF Barred
  <2> QED
    BY <2>1, LoneTold
<1>2. pc = "alias" /\ UNCHANGED <<start, phase, errors>>
  BY DEF ExpandAlias
<1>3. Only' = Only /\ OnlyFlag' = OnlyFlag
  BY <1>2 DEF Only, OnlyFlag
<1>4. CASE cur' = cur /\ args' = args /\ pc' = "apply"
  BY <1>2, <1>3, <1>4 DEF Parsed
<1>5. ASSUME NEW alias \in aliases_, alias.from = cur.name, alias.form \in AliasForms,
             cur' = [cur EXCEPT !.name = alias.to[1].name], args' = Tail(alias.to) \o args,
             pc' = AfterExpansion(cur.name, alias)
      PROVE  Parsed'
  <2>1. pc' \in {"alias", "apply"}
    BY <1>5 DEF AfterExpansion
  <2>2. cur.name \in OptionNames \ Barred =>
          /\ alias.form = "=" /\ cur.name \in {"--inspect", "--inspect-brk", "--inspect-wait"}
          /\ alias.to = <<Flag("--inspect-port"), Flag(cur.name)>>
    BY <1>5, AliasesTold DEF AliasTold
  <2>3. \A name : Flag(name).name = name /\ Flag(name).eq = FALSE
    BY DEF Flag, Word
  <2>4. CASE cur = Only /\ args = <<>>
    <3>1. Only.eq
      BY <1>1, <1>5, <2>2, <2>4 DEF AliasForms
    <3>2. Only.name \in Switches
      BY <1>1, <2>2, <2>4 DEF Switches
    <3>3. OnlyFlag
      BY <3>2, TypesThere DEF OnlyFlag
    <3>4. alias.to = <<Flag("--inspect-port"), Flag(Only.name)>>
      BY <1>1, <2>2, <2>4
    <3>5. args' = <<Flag(Only.name)>>
      BY <1>5, <2>4, <3>4
    <3>6. cur' = [Only EXCEPT !.name = "--inspect-port"]
      BY <1>5, <2>3, <2>4, <3>4
    <3> QED
      BY <1>3, <2>1, <3>1, <3>3, <3>5, <3>6 DEF Parsed
  <2>5. CASE cur = [Only EXCEPT !.name = "--inspect-port"]
    <3>1. cur.name = "--inspect-port"
      BY <1>1, <2>5 DEF StartWords
    <3> QED
      BY <1>1, <2>2, <3>1
  <2>6. CASE cur = Flag(Only.name) /\ args = <<>>
    <3>1. alias.form = "=" /\ cur.eq = FALSE
      BY <1>1, <2>2, <2>3, <2>6
    <3> QED
      BY <1>5, <2>6, <3>1 DEF AliasForms
  <2> QED
    BY <1>2, <2>4, <2>5, <2>6 DEF Parsed
<1> QED
  BY <1>4, <1>5 DEF ExpandAlias

\* How it is applied.
LEMMA LoneApplied ==
  ASSUME Types, Lone, Acceptable, phase = "env", Parsed, Apply
  PROVE  Acceptable' /\ Parsed'
<1>1. /\ Only \in StartWords /\ Only.name \in OptionNames \ Barred
      /\ "--inspect-port" \in OptionNames \ Barred /\ OptionInfo["--inspect-port"].type = "kHostPort"
  <2>1. "--inspect-port" \in OptionNames /\ "--inspect-port" \notin Barred
    BY NamesThere DEF Barred
  <2> QED
    BY <2>1, LoneTold, TypesThere
<1>2. pc = "apply" /\ UNCHANGED <<start, phase, cur>>
  BY DEF Apply
<1>3. Only' = Only /\ OnlyFlag' = OnlyFlag /\ Fits' = Fits
  BY <1>2 DEF Only, OnlyFlag, Fits
<1>4. /\ HasField(Only.name) /\ (TakesValue(Only.name) <=> ~OnlyFlag)
      /\ TakesValue("--inspect-port") /\ Only.neg = FALSE
      /\ Only.eq \in BOOLEAN /\ (~Only.eq => Only.text = <<>>)
  BY <1>1, LoneTold DEF TakesValue, HasField, OnlyFlag
<1>5. \/ cur = Only /\ args = <<>>
      \/ cur = [Only EXCEPT !.name = "--inspect-port"] /\ args = <<Flag(Only.name)>> /\ OnlyFlag /\ Only.eq
      \/ cur = Flag(Only.name) /\ args = <<>> /\ OnlyFlag
  BY <1>2 DEF Parsed
<1>6. /\ [Only EXCEPT !.name = "--inspect-port"].name = "--inspect-port"
      /\ [Only EXCEPT !.name = "--inspect-port"].neg = FALSE
      /\ [Only EXCEPT !.name = "--inspect-port"].eq = Only.eq
      /\ [Only EXCEPT !.name = "--inspect-port"].text = Only.text
      /\ Flag(Only.name).name = Only.name /\ Flag(Only.name).neg = FALSE
  BY <1>1, <1>4 DEF StartWords, Flag, Word
<1>7. cur.name \in OptionNames \ Barred /\ cur.neg = FALSE
  BY <1>1, <1>4, <1>5, <1>6
<1>8. ~RefuseInEnv /\ ~RefuseNegation
  BY <1>7, AllowedNames DEF RefuseInEnv, RefuseNegation, NotAllowed
<1>9. ASSUME errors' \subseteq errors \cup {"port"} PROVE Acceptable'
  BY <1>3, <1>9 DEF Acceptable
<1>10. CASE ApplyFlag
  <2>1. ~TakesValue(cur.name)
    BY <1>7, <1>10 DEF ApplyFlag
  <2>2. OnlyFlag /\ args = <<>>
    BY <1>4, <1>5, <1>6, <2>1
  <2>3. args' = <<>> /\ pc' = "loop" /\ errors' \subseteq errors \cup {"port"}
    BY <1>10, <2>2 DEF ApplyFlag, Accept
  <2> QED
    BY <1>3, <1>9, <2>2, <2>3 DEF Parsed, Fits
<1>11. CASE ApplyValue /\ HasValue
  <2>1. TakesValue(cur.name)
    BY <1>11 DEF ApplyValue
  <2>2. /\ args' = IF cur.eq THEN args ELSE Tail(args)
        /\ pc' = "loop" /\ errors' \subseteq errors \cup {"port"}
    BY <1>11 DEF ApplyValue, Accept
  <2>3. CASE cur = Only /\ args = <<>>
    <3>1. cur.eq /\ Only.text # <<>>
      BY <1>11, <2>3 DEF HasValue
    <3> QED
      BY <1>3, <1>9, <2>2, <2>3, <3>1 DEF Parsed, Fits
  <2>4. CASE cur = [Only EXCEPT !.name = "--inspect-port"] /\ args = <<Flag(Only.name)>> /\ OnlyFlag /\ Only.eq
    <3>1. cur.eq
      BY <1>6, <2>4
    <3>2. args' = <<Flag(Only.name)>> /\ pc' = "loop"
      BY <2>2, <2>4, <3>1
    <3> QED
      BY <1>3, <1>9, <2>2, <2>4, <3>2 DEF Parsed
  <2> QED
    BY <1>4, <1>5, <1>6, <2>1, <2>3, <2>4
<1>12. CASE ApplyValue /\ ~HasValue
  <2>1. TakesValue(cur.name) /\ errors' = errors \cup {"requires an argument"} /\ pc' = "over"
    BY <1>12 DEF ApplyValue, Reject
  <2>2. Only.text = <<>> /\ (Only.eq \/ ~OnlyFlag)
    <3>1. CASE cur = Only /\ args = <<>>
      BY <1>4, <1>12, <2>1, <3>1 DEF HasValue
    <3>2. CASE cur = [Only EXCEPT !.name = "--inspect-port"] /\ OnlyFlag /\ Only.eq
      BY <1>6, <1>12, <3>2 DEF HasValue
    <3> QED
      BY <1>4, <1>5, <1>6, <2>1, <3>1, <3>2
  <2>3. Acceptable'
    BY <1>3, <2>1, <2>2 DEF Acceptable
  <2> QED
    BY <2>1, <2>3 DEF Parsed
<1> QED
  BY <1>8, <1>10, <1>11, <1>12 DEF Apply

\* The only word waits at first.
LEMMA LoneInit == Init => LoneStages
BY DEF Init, LoneStages, Acceptable

\* And in the next one: the parser refuses it only for want of a value.
LEMMA LoneNext == Types /\ LoneStages /\ [Next]_vars => LoneStages'
<1> SUFFICES ASSUME Types, LoneStages, [Next]_vars, Lone' PROVE LoneStages'
  BY DEF LoneStages
<1>0. start' = start
  BY StartKept
<1>l. Lone
  BY <1>0 DEF Lone
<1>o. Only' = Only /\ OnlyFlag' = OnlyFlag /\ Fits' = Fits
  BY <1>0 DEF Only, OnlyFlag, Fits
<1>a. Acceptable /\ (errors' = errors => Acceptable')
  BY <1>l, <1>o DEF LoneStages, Acceptable
<1>p. pc \in {"loop", "alias", "apply", "over"} =>
        (phase = "env" /\ Parsed) \/ (phase = "cmd" /\ pc \in {"loop", "over"} /\ args = <<>> /\ Fits)
  BY <1>l DEF LoneStages, Types, Working
<1>w. /\ start.env = <<Only>> /\ start.cmd = <<>>
      /\ Only.name \notin {"argument", "--"} /\ Flag(Only.name).name = Only.name
  BY <1>l, LoneTold DEF Flag, Word
<1>1. CASE HandleEnvOptions
  BY <1>1, <1>a, <1>o, <1>w DEF HandleEnvOptions, LoneStages, Parsed
<1>2. CASE PopFirst
  <2>1. phase = "env" /\ pc = "loop" /\ args # <<>>
    BY <1>2, <1>p DEF PopFirst
  <2>2. args \in {<<Only>>, <<Flag(Only.name)>>} /\ (args = <<Only>> \/ OnlyFlag)
    BY <1>p, <2>1 DEF Parsed
  <2>3. Head(args) \in {Only, Flag(Only.name)} /\ Tail(args) = <<>> /\ (Head(args) = Only \/ OnlyFlag)
    <3>1. \A w : Head(<<w>>) = w /\ Tail(<<w>>) = <<>>
      OBVIOUS
    <3> QED
      BY <2>2, <3>1, Zenon
  <2>4. Head(args).name \notin {"argument", "--"}
    <3>1. CASE Head(args) = Only
      BY <1>w, <3>1
    <3>2. CASE Head(args) = Flag(Only.name)
      BY <1>w, <3>2
    <3> QED
      BY <2>3, <3>1, <3>2
  <2>5. cur' = Head(args) /\ args' = <<>> /\ pc' = "alias" /\ errors' = errors /\ phase' = phase
    BY <1>2, <2>3, <2>4 DEF PopFirst
  <2>6. CASE Head(args) = Only
    BY <1>a, <1>o, <2>1, <2>5, <2>6 DEF LoneStages, Parsed
  <2>7. CASE Head(args) = Flag(Only.name) /\ OnlyFlag
    <3>1. cur' = Flag(Only'.name) /\ OnlyFlag'
      BY <1>o, <2>5, <2>7
    <3>2. Parsed'
      BY <2>5, <3>1 DEF Parsed
    <3> QED
      BY <1>a, <2>1, <2>5, <3>2 DEF LoneStages
  <2> QED
    BY <2>3, <2>6, <2>7
<1>3. CASE EndOfOptions
  <2>1. pc = "loop" /\ pc' = "over" /\ UNCHANGED <<phase, args, errors>>
    BY <1>3 DEF EndOfOptions
  <2>2. CASE phase = "env" /\ Parsed
    <3>1. CASE args = <<Only>>
      <4>1. Head(args) = Only /\ args # <<>>
        BY <3>1
      <4>2. errors # {}
        BY <1>3, <1>w, <4>1 DEF EndOfOptions
      <4> QED
        BY <1>a, <2>1, <2>2, <4>2 DEF LoneStages, Parsed
    <3>2. CASE Fits
      BY <1>a, <1>o, <2>1, <2>2, <3>2 DEF LoneStages, Parsed
    <3> QED
      BY <2>1, <2>2, <3>1, <3>2 DEF Parsed, Fits
  <2>3. CASE phase = "cmd" /\ args = <<>> /\ Fits
    BY <1>a, <1>o, <2>1, <2>3 DEF LoneStages
  <2> QED
    BY <1>p, <2>1, <2>2, <2>3
<1>4. CASE ExpandAlias
  <2>1. phase = "env" /\ Parsed /\ phase' = phase /\ errors' = errors
    BY <1>4, <1>p DEF ExpandAlias
  <2>2. Parsed'
    BY <1>4, <1>l, <2>1, LoneAlias
  <2> QED
    BY <1>a, <2>1, <2>2 DEF LoneStages
<1>5. CASE Apply
  <2>1. phase = "env" /\ Parsed /\ phase' = phase
    BY <1>5, <1>p DEF Apply
  <2>2. Acceptable' /\ Parsed'
    BY <1>5, <1>a, <1>l, <2>1, LoneApplied
  <2> QED
    BY <2>1, <2>2 DEF LoneStages
<1>6. CASE CheckOptions
  <2>1. pc = "over"
    BY <1>6, CheckCases
  <2>2. Acceptable'
    <3>1. errors' \subseteq errors \cup Checks
      BY <1>6, CheckCases, OtherErrors
    <3> QED
      BY <1>a, <1>o, <3>1, NotTheParsers DEF Acceptable
  <2>3. errors' = {} => Fits
    <3>1. errors' = {} => errors = {}
      BY <1>6, CheckCases
    <3> QED
      BY <1>p, <2>1, <3>1 DEF Parsed
  <2>4. phase \in {"env", "cmd"}
    BY <1>p, <2>1
  <2> QED
    BY <1>6, <1>o, <1>w, <2>2, <2>3, <2>4, CheckCases DEF LoneStages
<1>7. CASE UNCHANGED vars
  BY <1>7, <1>a, <1>l, <1>o DEF vars, LoneStages, Parsed
<1> QED
  BY <1>1, <1>2, <1>3, <1>4, <1>5, <1>6, <1>7 DEF Next

\* What the schema offers, the parser takes.
THEOREM SchemaIsAccepted == Spec => []SchemaAccepted
<1>1. Types /\ LoneStages => SchemaAccepted
  <2> SUFFICES ASSUME Types, LoneStages, Lone
               PROVE  /\ "not allowed" \notin errors
                      /\ "requires an argument" \in errors =>
                           Only.text = <<>> /\ (Only.eq \/ InputType[Only.name] # "boolean")
                      /\ InputType[Only.name] # "boolean" /\ Only.text = <<>> =>
                           phase \in {"variables", "env", "failed"}
    BY DEF SchemaAccepted, Lone, Only
  <2> QED
    BY LoneTold DEF LoneStages, Acceptable, Fits
<1> QED
  BY <1>1, TypesInit, TypesNext, LoneInit, LoneNext, PTL DEF Spec

-----------------------------------------------------------------------------
(***************************************************************************)
(* EnvLexer: the text of NODE_OPTIONS becomes words.                       *)
(***************************************************************************)

\* Putting together is associative.
LEMMA Associates ==
  \A S : \A a, b, c \in Seq(S) : a \o (b \o c) = (a \o b) \o c
BY ConcatAssociative

\* What the sequences ss come to one by one when they are put together.
Sums(f, ss) ==
  /\ f[0] = <<>>
  /\ \A i \in 1 .. Len(ss) : f[i] = f[i - 1] \o ss[i]

\* There are partial sums for every list of sequences.
LEMMA SumsExist ==
  ASSUME NEW S, NEW ss \in Seq(Seq(S))
  PROVE  \E f \in [0 .. Len(ss) -> Seq(S)] : Sums(f, ss)
<1> DEFINE N == Len(ss)
           Upto(n, f) == f[0] = <<>> /\ \A i \in 1 .. n : f[i] = f[i - 1] \o ss[i]
           Bad == {n \in 0 .. N : ~\E f \in [0 .. n -> Seq(S)] : Upto(n, f)}
<1>1. N \in Nat /\ \A i \in 1 .. N : ss[i] \in Seq(S)
  BY ElementOfSeq, LenProperties
<1>2. Bad = {}
  <2> SUFFICES ASSUME Bad # {} PROVE FALSE
    OBVIOUS
  <2>a. \A n \in Bad : n \in 0 .. N
    BY Zenon
  <2> HIDE DEF Bad
  <2> Bad \in SUBSET Nat
    BY <1>1, <2>a
  <2>1. PICK n \in Bad : \A m \in Bad : n <= m
    BY Smallest
  <2>0. n \in 0 .. N /\ ~\E f \in [0 .. n -> Seq(S)] : Upto(n, f)
    BY <2>1 DEF Bad
  <2>2. n # 0
    <3>1. Upto(0, [i \in 0 .. 0 |-> <<>>])
      OBVIOUS
    <3>2. [i \in 0 .. 0 |-> <<>>] \in [0 .. 0 -> Seq(S)]
      BY EmptySeq
    <3> QED
      BY <2>0, <3>1, <3>2
  <2>3. n - 1 \in 0 .. N /\ n - 1 \notin Bad /\ n \in 1 .. N
    BY <1>1, <2>0, <2>1, <2>2
  <2>4. PICK f \in [0 .. n - 1 -> Seq(S)] : Upto(n - 1, f)
    BY <2>3 DEF Bad
  <2> DEFINE g == [i \in 0 .. n |-> IF i = n THEN f[n - 1] \o ss[n] ELSE f[i]]
  <2>5. g \in [0 .. n -> Seq(S)]
    <3>1. f[n - 1] \o ss[n] \in Seq(S)
      BY <1>1, <2>3, ConcatProperties
    <3> QED
      BY <2>3, <3>1
  <2>6. Upto(n, g)
    <3>1. g[0] = <<>>
      BY <2>3, <2>4
    <3>2. ASSUME NEW i \in 1 .. n PROVE g[i] = g[i - 1] \o ss[i]
      <4>1. CASE i = n
        <5>1. g[n] = f[n - 1] \o ss[n] /\ g[n - 1] = f[n - 1]
          <6>1. n \in 0 .. n /\ n - 1 \in 0 .. n /\ n - 1 # n
            BY <2>3
          <6> QED
            BY <6>1, Zenon
        <5> QED
          BY <4>1, <5>1, Zenon
      <4>2. CASE i # n
        <5>1. i \in 1 .. n - 1 /\ i - 1 \in 0 .. n - 1
          BY <2>3, <4>2
        <5>2. g[i] = f[i] /\ g[i - 1] = f[i - 1]
          BY <2>3, <5>1
        <5> QED
          BY <2>4, <5>1, <5>2
      <4> QED
        BY <4>1, <4>2
    <3> QED
      BY <3>1, <3>2
  <2> QED
    BY <2>0, <2>5, <2>6
<1>3. PICK f \in [0 .. N -> Seq(S)] : Upto(N, f)
  <2>1. N \in 0 .. N
    BY <1>1
  <2> QED
    BY <1>2, <2>1
<1> QED
  BY <1>3 DEF Sums

\* Two functions with the same steps agree.
LEMMA SumsAgree ==
  ASSUME NEW ss, Len(ss) \in Nat, NEW f, NEW g, Sums(f, ss), Sums(g, ss)
  PROVE  f[Len(ss)] = g[Len(ss)]
<1> DEFINE Bad == {n \in 0 .. Len(ss) : f[n] # g[n]}
<1> SUFFICES ASSUME Bad # {} PROVE FALSE
  OBVIOUS
<1> Bad \in SUBSET Nat
  OBVIOUS
<1>1. PICK n \in Bad : \A m \in Bad : n <= m
  BY Smallest
<1>2. n # 0
  BY <1>1 DEF Sums
<1>3. n \in 1 .. Len(ss) /\ f[n - 1] = g[n - 1]
  BY <1>1, <1>2
<1> QED
  BY <1>1, <1>3 DEF Sums

\* The sequences put together are where they come to in the end.
LEMMA FlattenIs ==
  ASSUME NEW S, NEW ss \in Seq(Seq(S)), NEW f, Sums(f, ss)
  PROVE  Seqs!FlattenSeq(ss) = f[Len(ss)]
<1> DEFINE N == Len(ss)
           Step(g) == [i \in 1 .. N |-> IF i = 1 THEN ss[i] ELSE g[i - 1] \o ss[i]]
           flat == CHOOSE g : g = Step(g)
<1>1. N \in Nat /\ \A i \in 1 .. N : ss[i] \in Seq(S)
  BY ElementOfSeq, LenProperties
<1>2. CASE N = 0
  <2>1. ss = <<>>
    BY <1>2, EmptySeq
  <2> QED
    BY <1>2, <2>1 DEF Seqs!FlattenSeq, Sums
<1>3. CASE N # 0
  <2>1. Seqs!FlattenSeq(ss) = flat[N]
    BY <1>3, Zenon DEF Seqs!FlattenSeq
  <2>2. PICK h \in [0 .. N -> Seq(S)] : Sums(h, ss)
    BY SumsExist
  <2> DEFINE r == [i \in 1 .. N |-> h[i]]
  <2>3. r = Step(r)
    <3>1. ASSUME NEW i \in 1 .. N PROVE r[i] = IF i = 1 THEN ss[i] ELSE r[i - 1] \o ss[i]
      <4>1. CASE i = 1
        <5>1. h[1] = <<>> \o ss[1]
          <6>1. h[1] = h[1 - 1] \o ss[1] /\ h[0] = <<>>
            BY <2>2, <4>1, Zenon DEF Sums
          <6>2. 1 - 1 = 0
            OBVIOUS
          <6> QED
            BY <6>1, <6>2, Zenon
        <5>2. ss[1] \in Seq(S)
          BY <1>1, <4>1
        <5>3. r[1] = h[1] /\ <<>> \o ss[1] = ss[1]
          BY <4>1, <5>2, ConcatEmptySeq
        <5> QED
          BY <4>1, <5>1, <5>3
      <4>2. CASE i # 1
        <5>1. i - 1 \in 1 .. N /\ r[i] = h[i] /\ r[i - 1] = h[i - 1]
          BY <1>1, <4>2
        <5>2. h[i] = h[i - 1] \o ss[i]
          BY <2>2, Zenon DEF Sums
        <5> QED
          BY <4>2, <5>1, <5>2
      <4> QED
        BY <4>1, <4>2
    <3> QED
      BY <3>1
  <2>4. flat = Step(flat)
    BY <2>3, Zenon
  <2> HIDE DEF flat
  <2> DEFINE e == [i \in 0 .. N |-> IF i = 0 THEN <<>> ELSE flat[i]]
  <2>5. Sums(e, ss)
    <3>1. ASSUME NEW i \in 1 .. N PROVE e[i] = e[i - 1] \o ss[i]
      <4>1. flat[i] = IF i = 1 THEN ss[i] ELSE flat[i - 1] \o ss[i]
        BY <2>4
      <4>2. CASE i = 1
        <5>1. ss[1] \in Seq(S) /\ e[1] = flat[1] /\ e[0] = <<>>
          BY <1>1, <4>2
        <5>2. 1 - 1 = 0 /\ <<>> \o ss[1] = ss[1]
          BY <5>1, ConcatEmptySeq
        <5>3. flat[1] = ss[1]
          BY <4>1, <4>2
        <5> QED
          BY <4>2, <5>1, <5>2, <5>3, Zenon
      <4>3. CASE i # 1
        <5>1. e[i] = flat[i] /\ e[i - 1] = flat[i - 1]
          BY <1>1, <4>3
        <5> QED
          BY <4>1, <4>3, <5>1, Zenon
      <4> QED
        BY <4>2, <4>3
    <3>2. e[0] = <<>>
      BY <1>1
    <3> QED
      BY <3>1, <3>2, Zenon DEF Sums
  <2>6. e[N] = flat[N]
    BY <1>1, <1>3
  <2> QED
    BY <1>1, <2>1, <2>5, <2>6, SumsAgree
<1> QED
  BY <1>2, <1>3

\* A flattened list has the members of its members.
LEMMA FlattenType ==
  ASSUME NEW S, NEW ss \in Seq(Seq(S))
  PROVE  Seqs!FlattenSeq(ss) \in Seq(S)
<1>1. PICK f \in [0 .. Len(ss) -> Seq(S)] : Sums(f, ss)
  BY SumsExist
<1> QED
  BY <1>1, FlattenIs, LenProperties

\* Nothing flattened is nothing.
LEMMA FlattenEmpty == Seqs!FlattenSeq(<<>>) = <<>>
BY DEF Seqs!FlattenSeq

\* One more sequence at the end.
LEMMA FlattenAppend ==
  ASSUME NEW S, NEW ss \in Seq(Seq(S)), NEW s \in Seq(S)
  PROVE  Seqs!FlattenSeq(Append(ss, s)) = Seqs!FlattenSeq(ss) \o s
<1> DEFINE N == Len(ss)
<1>1. PICK f \in [0 .. N -> Seq(S)] : Sums(f, ss)
  BY SumsExist
<1> DEFINE g == [i \in 0 .. N + 1 |-> IF i = N + 1 THEN f[N] \o s ELSE f[i]]
           more == Append(ss, s)
<1>2. /\ N \in Nat /\ more \in Seq(Seq(S)) /\ Len(more) = N + 1 /\ more[N + 1] = s
      /\ \A i \in 1 .. N : more[i] = ss[i]
  BY AppendProperties, LenProperties
<1>3. Sums(g, more)
  <2>1. ASSUME NEW i \in 1 .. N + 1 PROVE g[i] = g[i - 1] \o more[i]
    <3>1. CASE i = N + 1
      <4>1. g[N + 1] = f[N] \o s /\ g[N] = f[N] /\ N + 1 - 1 = N
        BY <1>2
      <4>2. more[N + 1] = s
        BY <1>2, Zenon
      <4> HIDE DEF more, g
      <4>3. g[i] = f[N] \o s
        BY <3>1, <4>1, Zenon
      <4>4. i - 1 = N
        BY <1>2, <3>1
      <4>5. g[i - 1] = f[N] /\ more[i] = s
        BY <3>1, <4>1, <4>2, <4>4, Zenon
      <4> QED
        BY <4>3, <4>5, Zenon
    <3>2. CASE i # N + 1
      <4>1. i \in 1 .. N /\ g[i] = f[i] /\ g[i - 1] = f[i - 1] /\ more[i] = ss[i]
        BY <1>2, <3>2
      <4> QED
        BY <1>1, <4>1 DEF Sums
    <3> QED
      BY <3>1, <3>2
  <2>2. g[0] = <<>>
    BY <1>1, <1>2 DEF Sums
  <2> QED
    BY <1>2, <2>1, <2>2 DEF Sums
<1>4. Seqs!FlattenSeq(more) = g[N + 1] /\ Seqs!FlattenSeq(ss) = f[N]
  <2> HIDE DEF g, more
  <2> QED
    BY <1>1, <1>2, <1>3, FlattenIs
<1> QED
  BY <1>2, <1>4

\* One more at the front.
LEMMA FlattenCons ==
  ASSUME NEW S, NEW ss \in Seq(Seq(S)), ss # <<>>
  PROVE  Seqs!FlattenSeq(ss) = Head(ss) \o Seqs!FlattenSeq(Tail(ss))
<1> DEFINE N == Len(Tail(ss))
<1>1. PICK f \in [0 .. N -> Seq(S)] : Sums(f, Tail(ss))
  BY SumsExist, HeadTailProperties
<1> DEFINE g == [i \in 0 .. N + 1 |-> IF i = 0 THEN <<>> ELSE Head(ss) \o f[i - 1]]
<1>2. /\ N \in Nat /\ Tail(ss) \in Seq(Seq(S)) /\ Len(ss) = N + 1 /\ ss[1] = Head(ss)
      /\ Head(ss) \in Seq(S) /\ \A i \in 1 .. N : Tail(ss)[i] = ss[i + 1] /\ Tail(ss)[i] \in Seq(S)
  BY HeadTailProperties, LenProperties, ElementOfSeq
<1>3. \A a \in Seq(S) : \A b \in Seq(S) : \A c \in Seq(S) : a \o (b \o c) = (a \o b) \o c
  BY Associates
<1>4. Sums(g, ss)
  <2>1. ASSUME NEW i \in 1 .. N + 1 PROVE g[i] = g[i - 1] \o ss[i]
    <3>1. CASE i = 1
      <4>1. g[1] = Head(ss) \o <<>> /\ g[0] = <<>>
        BY <1>1, <1>2, <3>1 DEF Sums
      <4> QED
        BY <1>2, <3>1, <4>1, ConcatEmptySeq
    <3>2. CASE i # 1
      <4> DEFINE j == i - 1
      <4>0. j \in 1 .. N /\ j \in 0 .. N /\ j - 1 \in 0 .. N /\ i = j + 1 /\ j # 0
        BY <1>2, <3>2
      <4> HIDE DEF j
      <4>1. g[i] = Head(ss) \o f[j] /\ g[j] = Head(ss) \o f[j - 1] /\ i - 1 = j
        <5>1. i \in 0 .. N + 1 /\ i # 0 /\ i - 1 = j /\ j \in 0 .. N + 1
          BY <1>2, <4>0
        <5> QED
          BY <4>0, <5>1, Zenon
      <4>2. f[j] = f[j - 1] \o Tail(ss)[j] /\ f[j - 1] \in Seq(S)
        BY <1>1, <4>0, Zenon DEF Sums
      <4>3. Tail(ss)[j] = ss[i] /\ Tail(ss)[j] \in Seq(S)
        BY <1>2, <4>0
      <4>4. Head(ss) \o (f[j - 1] \o Tail(ss)[j]) = (Head(ss) \o f[j - 1]) \o Tail(ss)[j]
        <5>1. Head(ss) \in Seq(S) /\ f[j - 1] \in Seq(S) /\ Tail(ss)[j] \in Seq(S)
          BY <1>2, <4>2, <4>3
        <5> QED
          BY <1>3, <5>1, Zenon
      <4> QED
        BY <4>1, <4>2, <4>3, <4>4, Zenon
    <3> QED
      BY <3>1, <3>2
  <2>2. g[0] = <<>>
    BY <1>2
  <2> QED
    BY <1>2, <2>1, <2>2 DEF Sums
<1>5. Seqs!FlattenSeq(ss) = g[N + 1] /\ Seqs!FlattenSeq(Tail(ss)) = f[N]
  <2> HIDE DEF g
  <2> QED
    BY <1>1, <1>2, <1>4, FlattenIs
<1> QED
  BY <1>2, <1>5

\* A sequence and one more member.
LEMMA OneMore ==
  ASSUME NEW S, NEW s \in Seq(S), NEW c \in S
  PROVE  Append(s, c) = s \o <<c>> /\ <<c>> \in Seq(S) /\ s \o <<>> = s
BY AppendIsConcat, ConcatEmptySeq

\* The last sequence goes on with one more member.
LEMMA FlattenGrows ==
  ASSUME NEW S, NEW ss \in Seq(Seq(S)), ss # <<>>, NEW c \in S
  PROVE  LET grown == [ss EXCEPT ![Len(ss)] = Append(@, c)]
         IN /\ grown \in Seq(Seq(S))
            /\ Seqs!FlattenSeq(grown) = Append(Seqs!FlattenSeq(ss), c)
<1> DEFINE grown == [ss EXCEPT ![Len(ss)] = Append(@, c)]
<1>7. \A a \in Seq(S) : \A b \in Seq(S) : \A d \in Seq(S) : a \o (b \o d) = (a \o b) \o d
  BY Associates, SMTT(30)
<1>1. PICK front \in Seq(Seq(S)), last \in Seq(S) : ss = Append(front, last)
  BY SequenceEmptyOrAppend
<1> DEFINE more == Append(last, c)
<1>2. more \in Seq(S) /\ more = last \o <<c>> /\ <<c>> \in Seq(S)
  BY OneMore, AppendProperties
<1> HIDE DEF more
<1>3. grown = Append(front, more)
  <2>1. /\ Len(front) \in Nat /\ Len(ss) = Len(front) + 1 /\ ss[Len(ss)] = last
        /\ \A i \in 1 .. Len(front) : ss[i] = front[i]
        /\ DOMAIN ss = 1 .. Len(ss)
    BY <1>1, AppendProperties, LenProperties
  <2>2. /\ Append(front, more) \in Seq(Seq(S)) /\ Len(Append(front, more)) = Len(ss)
        /\ Append(front, more)[Len(ss)] = more
        /\ \A i \in 1 .. Len(front) : Append(front, more)[i] = front[i]
    BY <1>2, <2>1, AppendProperties
  <2>3. Len(ss) \in 1 .. Len(ss)
    BY <2>1
  <2>4. grown = [i \in 1 .. Len(ss) |-> IF i = Len(ss) THEN more ELSE ss[i]]
    BY <2>1 DEF more
  <2>5. /\ grown \in Seq(Seq(S)) /\ Len(grown) = Len(ss)
        /\ \A j \in 1 .. Len(ss) : grown[j] = IF j = Len(ss) THEN more ELSE ss[j]
    <3>1. Len(ss) \in Nat /\ \A i \in 1 .. Len(ss) : ss[i] \in Seq(S)
      BY LenProperties, ElementOfSeq
    <3> DEFINE n == Len(ss)
               made == [i \in 1 .. n |-> IF i = n THEN more ELSE ss[i]]
    <3>2. made \in Seq(Seq(S)) /\ Len(made) = n
      <4> HIDE DEF n
      <4> QED
        BY <1>2, <3>1 DEF n
    <3> QED
      BY <2>4, <3>2
  <2> HIDE DEF grown
  <2>6. ASSUME NEW j \in 1 .. Len(ss) PROVE grown[j] = Append(front, more)[j]
    BY <2>1, <2>2, <2>5
  <2> QED
    BY <2>2, <2>5, <2>6, SeqEqual
<1> HIDE DEF grown
<1>4. grown \in Seq(Seq(S)) /\ Seqs!FlattenSeq(grown) = Seqs!FlattenSeq(front) \o more
  BY <1>2, <1>3, FlattenAppend, AppendProperties
<1>5. Seqs!FlattenSeq(ss) = Seqs!FlattenSeq(front) \o last
  BY <1>1, FlattenAppend
<1>6. Seqs!FlattenSeq(front) \in Seq(S) /\ Seqs!FlattenSeq(ss) \in Seq(S)
  BY FlattenType
<1>8. Seqs!FlattenSeq(grown) = Seqs!FlattenSeq(ss) \o <<c>>
  <2>1. Seqs!FlattenSeq(front) \o (last \o <<c>>) = (Seqs!FlattenSeq(front) \o last) \o <<c>>
    BY <1>2, <1>6, <1>7, ZenonT(60)
  <2> QED
    BY <1>2, <1>4, <1>5, <2>1, Zenon
<1>9. Append(Seqs!FlattenSeq(ss), c) = Seqs!FlattenSeq(ss) \o <<c>>
  BY <1>6, OneMore
<1> QED
  BY <1>4, <1>8, <1>9 DEF grown

-----------------------------------------------------------------------------
\* The ordinary characters of a sequence, as CharsKept compares them.
IfOrdinary(c) == IF c \in Ordinary THEN <<c>> ELSE <<>>

\* What a text has of ordinary characters.
OrdinaryOf(s) == Seqs!FlattenSeq([i \in DOMAIN s |-> IfOrdinary(s[i])])

\* The ordinary characters, each in a sequence of its own.
LEMMA OnesType ==
  ASSUME NEW S, NEW s \in Seq(S)
  PROVE  [i \in DOMAIN s |-> IfOrdinary(s[i])] \in Seq(Seq(Ordinary))
<1>1. Len(s) \in Nat /\ DOMAIN s = 1 .. Len(s)
  BY LenProperties
<1>2. \A i \in 1 .. Len(s) : IfOrdinary(s[i]) \in Seq(Ordinary)
  BY DEF IfOrdinary
<1> QED
  BY <1>1, <1>2

\* One more character is one more ordinary one, or none.
LEMMA OrdinaryAppend ==
  ASSUME NEW S, NEW s \in Seq(S), NEW c \in S
  PROVE  OrdinaryOf(Append(s, c)) = OrdinaryOf(s) \o IfOrdinary(c)
<1> DEFINE ones(t) == [i \in DOMAIN t |-> IfOrdinary(t[i])]
           more == Append(s, c)
<1>1. /\ Len(s) \in Nat /\ DOMAIN s = 1 .. Len(s) /\ more \in Seq(S) /\ Len(more) = Len(s) + 1
      /\ DOMAIN more = 1 .. Len(more)
      /\ \A i \in 1 .. Len(s) : more[i] = s[i]
      /\ more[Len(s) + 1] = c
  BY AppendProperties, LenProperties
<1> HIDE DEF more
<1>2. ones(more) \in Seq(Seq(Ordinary)) /\ ones(s) \in Seq(Seq(Ordinary))
  BY <1>1, OnesType
<1>3. IfOrdinary(c) \in Seq(Ordinary)
  BY DEF IfOrdinary
<1>4. ones(more) = Append(ones(s), IfOrdinary(c))
  <2>1. Len(ones(more)) = Len(s) + 1 /\ Len(ones(s)) = Len(s)
    BY <1>1
  <2>2. /\ Append(ones(s), IfOrdinary(c)) \in Seq(Seq(Ordinary))
        /\ Len(Append(ones(s), IfOrdinary(c))) = Len(s) + 1
        /\ \A i \in 1 .. Len(s) : Append(ones(s), IfOrdinary(c))[i] = ones(s)[i]
        /\ Append(ones(s), IfOrdinary(c))[Len(s) + 1] = IfOrdinary(c)
    BY <1>2, <1>3, <2>1, AppendProperties
  <2>3. /\ \A i \in 1 .. Len(s) : ones(more)[i] = ones(s)[i]
        /\ ones(more)[Len(s) + 1] = IfOrdinary(c)
    BY <1>1
  <2> HIDE DEF ones
  <2>4. ASSUME NEW i \in 1 .. Len(ones(more)) PROVE ones(more)[i] = Append(ones(s), IfOrdinary(c))[i]
    BY <1>1, <2>1, <2>2, <2>3
  <2> QED
    BY <1>2, <2>1, <2>2, <2>4, SeqEqual
<1>5. Seqs!FlattenSeq(ones(more)) = Seqs!FlattenSeq(ones(s)) \o IfOrdinary(c)
  <2> HIDE DEF ones
  <2> QED
    BY <1>2, <1>3, <1>4, FlattenAppend
<1> QED
  BY <1>5 DEF OrdinaryOf, more

\* They are a text again.
LEMMA OrdinaryType ==
  ASSUME NEW S, NEW s \in Seq(S)
  PROVE  OrdinaryOf(s) \in Seq(Ordinary) /\ OrdinaryOf(s) \o <<>> = OrdinaryOf(s)
<1>1. OrdinaryOf(s) \in Seq(Ordinary)
  BY OnesType, FlattenType DEF OrdinaryOf
<1> QED
  BY <1>1, ConcatEmptySeq

\* The lexer's state has its types, and the text is made of characters.
LexerTyped ==
  /\ node_options \in Seq(Chars)
  /\ index \in 0 .. Len(node_options)
  /\ is_in_string \in BOOLEAN /\ will_start_new_arg \in BOOLEAN /\ done \in BOOLEAN
  /\ env_argv \in Seq(Seq(Chars) \ {<<>>})
  /\ env_argv = <<>> => will_start_new_arg
  /\ lex_errors \subseteq {"invalid-escape", "unterminated-string"}

\* Space, quote and backslash are three characters, none of them ordinary.
LEMMA Special ==
  /\ Space \notin Ordinary /\ Quote \notin Ordinary /\ Backslash \notin Ordinary
  /\ {Space, Quote, Backslash} \subseteq Chars /\ Ordinary \subseteq Chars
  /\ Quote # Backslash /\ Quote # Space /\ Space # Backslash
BY LexerAssumption, Zenon DEF Chars, Space, Quote, Backslash

\* A quoted word is a text.
LEMMA QuotedType ==
  ASSUME NEW word \in Seq(Chars)
  PROVE  Quoted(word) \in Seq(Chars)
<1> DEFINE esc == [i \in DOMAIN word |->
                     IF word[i] \in {Quote, Backslash} THEN <<Backslash, word[i]>> ELSE <<word[i]>>]
<1>1. Len(word) \in Nat /\ DOMAIN word = 1 .. Len(word) /\ \A i \in 1 .. Len(word) : word[i] \in Chars
  BY LenProperties, ElementOfSeq
<1>2. \A i \in 1 .. Len(word) : esc[i] \in Seq(Chars)
  BY <1>1, Special
<1>3. esc \in Seq(Seq(Chars))
  BY <1>1, <1>2
<1>4. Seqs!FlattenSeq(esc) \in Seq(Chars)
  BY <1>3, FlattenType
<1>5. <<Quote>> \in Seq(Chars)
  BY Special
<1>6. Quoted(word) = <<Quote>> \o Seqs!FlattenSeq(esc) \o <<Quote>>
  BY Zenon DEF Quoted
<1> HIDE DEF esc
<1> QED
  BY <1>4, <1>5, <1>6, ConcatProperties

\* So is a list of words as it is written.
LEMMA WrittenType ==
  ASSUME NEW words \in Seq(Seq(Chars)), NEW t \in Written(words)
  PROVE  t \in Seq(Chars)
<1> DEFINE ways == [i \in DOMAIN words |-> Bare(words[i]) \cup {Quoted(words[i])}]
           picks == {p \in [DOMAIN words -> UNION {ways[i] : i \in DOMAIN words}] :
                       \A i \in DOMAIN words : p[i] \in ways[i]}
<1>1. PICK p \in picks : t = Seqs!FlattenSeq([i \in DOMAIN words |-> p[i] \o <<Space>>])
  BY DEF Written
<1>2. Len(words) \in Nat /\ DOMAIN words = 1 .. Len(words)
      /\ \A i \in 1 .. Len(words) : words[i] \in Seq(Chars)
  BY LenProperties, ElementOfSeq
<1> DEFINE spaced == [i \in DOMAIN words |-> p[i] \o <<Space>>]
<1>3. ASSUME NEW i \in 1 .. Len(words) PROVE p[i] \o <<Space>> \in Seq(Chars)
  <2>1. p[i] \in Bare(words[i]) \cup {Quoted(words[i])}
    BY <1>1, <1>2
  <2>2. words[i] \in Seq(Chars)
    BY <1>2
  <2>3. p[i] = words[i] \/ p[i] = Quoted(words[i])
    BY <2>1, Zenon DEF Bare
  <2>4. p[i] \in Seq(Chars) /\ <<Space>> \in Seq(Chars)
    BY <2>2, <2>3, QuotedType, Special
  <2> QED
    BY <2>4, ConcatProperties
<1>4. spaced \in Seq(Seq(Chars))
  BY <1>2, <1>3
<1> HIDE DEF spaced
<1> QED
  BY <1>1, <1>4, FlattenType DEF spaced

\* The types hold at first.
LEMMA LexerInit ==
  ASSUME LexInit
  PROVE  LexerTyped
<1>1. node_options \in Seq(Chars)
  <2>1. CASE line \in Lines /\ node_options \in Written(line)
    <3>1. line \in Seq(Seq(Chars))
      <4>1. line \in Seq(Seq(Chars) \ {<<>>})
        BY <2>1, LexerAssumption
      <4> QED
        BY <4>1, SeqMonotonic
    <3> QED
      BY <2>1, <3>1, WrittenType
  <2>2. CASE node_options \in Texts
    BY <2>2, LexerAssumption
  <2> QED
    BY <2>1, <2>2 DEF LexInit
<1>2. /\ index = 0 /\ done = FALSE /\ is_in_string = FALSE /\ will_start_new_arg = TRUE
      /\ env_argv = <<>> /\ lex_errors = {}
  BY Zenon DEF LexInit
<1>3. Len(node_options) \in Nat
  BY <1>1, LenProperties
<1>4. env_argv \in Seq(Seq(Chars) \ {<<>>})
  BY <1>2, EmptySeq
<1>5. index \in 0 .. Len(node_options)
  BY <1>2, <1>3
<1>6. is_in_string \in BOOLEAN /\ will_start_new_arg \in BOOLEAN /\ done \in BOOLEAN
  BY <1>2, Zenon
<1>7. /\ env_argv = <<>> => will_start_new_arg
      /\ lex_errors \subseteq {"invalid-escape", "unterminated-string"}
  BY <1>2, Zenon
<1> QED
  BY <1>1, <1>4, <1>5, <1>6, <1>7 DEF LexerTyped

\* A character put into the words.
LEMMA PutTyped ==
  ASSUME LexerTyped, NEW c \in Chars, Put(c)
  PROVE  /\ env_argv' \in Seq(Seq(Chars) \ {<<>>}) /\ env_argv' # <<>>
         /\ will_start_new_arg' = FALSE
         /\ Seqs!FlattenSeq(env_argv') = Append(Seqs!FlattenSeq(env_argv), c)
<1> DEFINE W == Seq(Chars) \ {<<>>}
<1>1. env_argv \in Seq(W) /\ will_start_new_arg' = FALSE
  BY DEF LexerTyped, Put
<1>2. env_argv \in Seq(Seq(Chars))
  BY <1>1, SeqMonotonic
<1>3. <<c>> \in Seq(Chars) /\ <<c>> # <<>>
  OBVIOUS
<1>4. CASE will_start_new_arg
  <2>1. env_argv' = Append(env_argv, <<c>>)
    BY <1>4, Zenon DEF Put
  <2>2. env_argv' \in Seq(W) /\ env_argv' # <<>>
    <3> HIDE DEF W
    <3>1. <<c>> \in W
      BY <1>3 DEF W
    <3> QED
      BY <1>1, <2>1, <3>1, AppendProperties
  <2>3. Seqs!FlattenSeq(env_argv') = Seqs!FlattenSeq(env_argv) \o <<c>>
    BY <1>2, <1>3, <2>1, FlattenAppend
  <2>4. Append(Seqs!FlattenSeq(env_argv), c) = Seqs!FlattenSeq(env_argv) \o <<c>>
    BY <1>2, FlattenType, OneMore
  <2> QED
    BY <1>1, <2>2, <2>3, <2>4, Zenon
<1>5. CASE ~will_start_new_arg
  <2>1. env_argv' = [env_argv EXCEPT ![Len(env_argv)] = Append(@, c)]
    BY <1>5, Zenon DEF Put
  <2>2. env_argv # <<>>
    BY <1>5 DEF LexerTyped
  <2>3. Len(env_argv) \in 1 .. Len(env_argv) /\ env_argv[Len(env_argv)] \in W
        /\ \A i \in 1 .. Len(env_argv) : env_argv[i] \in W
    BY <1>1, <2>2, EmptySeq, LenProperties, ElementOfSeq
  <2>4. Append(env_argv[Len(env_argv)], c) \in W
    BY <2>3, AppendProperties
  <2>5. env_argv' \in Seq(W) /\ Len(env_argv') = Len(env_argv)
    <3> DEFINE more == Append(env_argv[Len(env_argv)], c)
    <3>1. env_argv' = [env_argv EXCEPT ![Len(env_argv)] = more]
      BY <2>1, Zenon
    <3> HIDE DEF W, more
    <3> QED
      BY <1>1, <2>3, <2>4, <3>1, ExceptSeq DEF more
  <2>6. env_argv' # <<>>
    BY <2>3, <2>5
  <2>7. Seqs!FlattenSeq(env_argv') = Append(Seqs!FlattenSeq(env_argv), c)
    BY <1>2, <2>1, <2>2, FlattenGrows
  <2> QED
    BY <1>1, <2>5, <2>6, <2>7
<1> QED
  BY <1>4, <1>5

\* The character that is next.
LEMMA NextTyped ==
  ASSUME LexerTyped, More
  PROVE  /\ index + 1 \in 1 .. Len(node_options) /\ NextChar \in Chars
         /\ Len(node_options) \in Nat
         /\ index + 2 <= Len(node_options) => node_options[index + 2] \in Chars
BY LenProperties, ElementOfSeq DEF LexerTyped, More, NextChar

\* The ways a step can go.
LEMMA LexerCases ==
  ASSUME [LexNext]_lex_vars
  PROVE  ReadEscaped \/ ReadSpace \/ ReadQuote \/ ReadChar
         \/ EndOfText \/ UNCHANGED lex_vars
BY DEF LexNext

\* And after each step.
LEMMA LexerStep ==
  ASSUME LexerTyped, [LexNext]_lex_vars
  PROVE  LexerTyped'
<1>1. CASE ReadEscaped
  <2>1. More /\ node_options' = node_options /\ is_in_string' = is_in_string
    BY <1>1, Zenon DEF ReadEscaped
  <2>2. CASE index + 2 > Len(node_options)
    <3>1. /\ lex_errors' = lex_errors \cup {"invalid-escape"} /\ done' = TRUE
          /\ UNCHANGED <<index, env_argv, will_start_new_arg>>
      BY <1>1, <2>2, Zenon DEF ReadEscaped
    <3> QED
      BY <2>1, <3>1 DEF LexerTyped
  <2>3. CASE ~(index + 2 > Len(node_options))
    <3>1. /\ Put(node_options[index + 2]) /\ index' = index + 2
          /\ UNCHANGED <<lex_errors, done>>
      BY <1>1, <2>3, Zenon DEF ReadEscaped
    <3>2. node_options[index + 2] \in Chars /\ index' \in 0 .. Len(node_options)
      BY <2>1, <2>3, <3>1, NextTyped DEF LexerTyped
    <3>3. /\ env_argv' \in Seq(Seq(Chars) \ {<<>>}) /\ env_argv' # <<>>
          /\ will_start_new_arg' = FALSE
      BY <3>1, <3>2, PutTyped, Zenon
    <3> QED
      BY <2>1, <3>1, <3>2, <3>3 DEF LexerTyped
  <2> QED
    BY <2>2, <2>3
<1>2. CASE ReadSpace
  BY <1>2, NextTyped DEF ReadSpace, LexerTyped
<1>3. CASE ReadQuote
  BY <1>3, NextTyped DEF ReadQuote, LexerTyped
<1>4. CASE ReadChar
  <2>1. /\ More /\ Put(NextChar) /\ index' = index + 1
        /\ UNCHANGED <<node_options, is_in_string, lex_errors, done>>
    BY <1>4, Zenon DEF ReadChar
  <2>2. NextChar \in Chars /\ index' \in 0 .. Len(node_options)
    BY <2>1, NextTyped DEF LexerTyped
  <2>3. /\ env_argv' \in Seq(Seq(Chars) \ {<<>>}) /\ env_argv' # <<>>
        /\ will_start_new_arg' = FALSE
    BY <2>1, <2>2, PutTyped, Zenon
  <2> QED
    BY <2>1, <2>2, <2>3 DEF LexerTyped
<1>5. CASE EndOfText
  <2>1. lex_errors' \subseteq {"invalid-escape", "unterminated-string"}
    BY <1>5 DEF EndOfText, ErrorsAtEnd, LexerTyped
  <2> QED
    BY <1>5, <2>1 DEF EndOfText, LexerTyped
<1>6. CASE UNCHANGED lex_vars
  BY <1>6 DEF lex_vars, LexerTyped
<1> QED
  BY <1>1, <1>2, <1>3, <1>4, <1>5, <1>6, LexerCases

\* What was read, one character further.
LEMMA OneRead ==
  ASSUME LexerTyped, NEW k \in 0 .. Len(node_options), k < Len(node_options)
  PROVE  /\ SubSeq(node_options, 1, k) \in Seq(Chars)
         /\ node_options[k + 1] \in Chars
         /\ SubSeq(node_options, 1, k + 1) = Append(SubSeq(node_options, 1, k), node_options[k + 1])
<1>1. /\ node_options \in Seq(Chars) /\ Len(node_options) \in Nat
      /\ k \in Nat /\ k + 1 \in 1 .. Len(node_options)
  BY LenProperties DEF LexerTyped
<1>2. node_options[k + 1] \in Chars
  BY <1>1, ElementOfSeq
<1>3. SubSeq(node_options, 1, k) \in Seq(Chars)
  <2>1. \A i \in 1 .. k : node_options[i] \in Chars
    BY <1>1, ElementOfSeq
  <2> QED
    BY <1>1, <2>1, SubSeqProperties
<1>4. SubSeq(node_options, 1, k + 1) = SubSeq(node_options, 1, k) \o <<node_options[k + 1]>>
  <2> DEFINE n == k + 1
  <2>1. 1 \in 1 .. Len(node_options) /\ n \in 1 .. Len(node_options) /\ n - 1 = k
    BY <1>1
  <2> HIDE DEF n
  <2>2. SubSeq(node_options, 1, n) = SubSeq(node_options, 1, n - 1) \o <<node_options[n]>>
    BY <1>1, <2>1, SubSeqRecursiveSecond
  <2>3. SubSeq(node_options, 1, n) = SubSeq(node_options, 1, k) \o <<node_options[n]>>
    BY <2>1, <2>2, Zenon
  <2> QED
    BY <2>3, Zenon DEF n
<1>5. Append(SubSeq(node_options, 1, k), node_options[k + 1])
        = SubSeq(node_options, 1, k) \o <<node_options[k + 1]>>
  BY <1>2, <1>3, AppendIsConcat
<1> QED
  BY <1>2, <1>3, <1>4, <1>5, Zenon

\* CharsKept in terms of the lemmas.
LEMMA CharsKeptIs ==
  CharsKept <=>
    OrdinaryOf(Seqs!FlattenSeq(env_argv)) = OrdinaryOf(SubSeq(node_options, 1, index))
BY Zenon DEF CharsKept, OrdinaryOf, IfOrdinary

\* The words put together are a text.
LEMMA WordsTyped ==
  ASSUME LexerTyped
  PROVE  Seqs!FlattenSeq(env_argv) \in Seq(Chars)
<1>1. env_argv \in Seq(Seq(Chars))
  BY SeqMonotonic DEF LexerTyped
<1> QED
  BY <1>1, FlattenType

\* A character that is read adds to the words what it adds to the text.
LEMMA SameAdded ==
  ASSUME LexerTyped, CharsKept, NEW c \in Chars, Put(c)
  PROVE  OrdinaryOf(Seqs!FlattenSeq(env_argv'))
           = OrdinaryOf(SubSeq(node_options, 1, index)) \o IfOrdinary(c)
<1>1. Seqs!FlattenSeq(env_argv') = Append(Seqs!FlattenSeq(env_argv), c)
  BY PutTyped, Zenon
<1>2. OrdinaryOf(Append(Seqs!FlattenSeq(env_argv), c))
        = OrdinaryOf(Seqs!FlattenSeq(env_argv)) \o IfOrdinary(c)
  BY WordsTyped, OrdinaryAppend
<1>3. OrdinaryOf(Seqs!FlattenSeq(env_argv)) = OrdinaryOf(SubSeq(node_options, 1, index))
  BY CharsKeptIs
<1> QED
  BY <1>1, <1>2, <1>3, Zenon

\* Reading a character with a meaning adds nothing.
LEMMA NothingAdded ==
  ASSUME LexerTyped, NEW k \in 0 .. Len(node_options), k < Len(node_options),
         node_options[k + 1] \notin Ordinary
  PROVE  OrdinaryOf(SubSeq(node_options, 1, k + 1)) = OrdinaryOf(SubSeq(node_options, 1, k))
<1> DEFINE s == SubSeq(node_options, 1, k)
           c == node_options[k + 1]
<1>1. s \in Seq(Chars) /\ c \in Chars
      /\ SubSeq(node_options, 1, k + 1) = Append(s, c)
  BY OneRead
<1>2. IfOrdinary(c) = <<>>
  BY Zenon DEF IfOrdinary
<1> HIDE DEF s, c
<1>3. OrdinaryOf(Append(s, c)) = OrdinaryOf(s) \o IfOrdinary(c) /\ OrdinaryOf(s) \o <<>> = OrdinaryOf(s)
  BY <1>1, OrdinaryAppend, OrdinaryType
<1> QED
  BY <1>1, <1>2, <1>3, Zenon DEF s

\* Nothing is read and nothing written at first.
LEMMA KeptInit ==
  ASSUME LexInit
  PROVE  CharsKept
<1>1. env_argv = <<>> /\ index = 0
  BY Zenon DEF LexInit
<1>2. SubSeq(node_options, 1, index) = <<>>
  BY <1>1, SubSeqEmpty
<1> QED
  BY <1>1, <1>2, FlattenEmpty, CharsKeptIs, Zenon

\* Each character that is read is put into the last word, or is none to be
\* put.
LEMMA KeptStep ==
  ASSUME LexerTyped, LexerTyped', CharsKept,
         [LexNext]_lex_vars
  PROVE  CharsKept'
<1>0. SUFFICES OrdinaryOf(Seqs!FlattenSeq(env_argv'))
                 = OrdinaryOf(SubSeq(node_options', 1, index'))
  BY Zenon DEF CharsKept, OrdinaryOf, IfOrdinary
<1>a. OrdinaryOf(Seqs!FlattenSeq(env_argv)) = OrdinaryOf(SubSeq(node_options, 1, index))
  BY CharsKeptIs
<1>b. Len(node_options) \in Nat /\ index \in Nat /\ index \in 0 .. Len(node_options)
  BY LenProperties DEF LexerTyped
<1>1. CASE ReadEscaped
  <2>1. /\ More /\ node_options' = node_options
        /\ NextChar = Backslash
    BY <1>1, Zenon DEF ReadEscaped, Escapes
  <2>2. CASE index + 2 > Len(node_options)
    <3>1. UNCHANGED <<index, env_argv>>
      BY <1>1, <2>2, Zenon DEF ReadEscaped
    <3> QED
      BY <1>a, <2>1, <3>1, Zenon
  <2>3. CASE ~(index + 2 > Len(node_options))
    <3> DEFINE c == node_options[index + 2]
    <3>1. Put(c) /\ index' = index + 2
      BY <1>1, <2>3, Zenon DEF ReadEscaped
    <3>2. index + 1 \in 0 .. Len(node_options) /\ index + 1 < Len(node_options)
          /\ index < Len(node_options) /\ index + 1 + 1 = index + 2
      BY <1>b, <2>3
    <3>3. node_options[index + 1] \notin Ordinary
      BY <2>1, Special, Zenon DEF NextChar
    <3>4. OrdinaryOf(SubSeq(node_options, 1, index + 1)) = OrdinaryOf(SubSeq(node_options, 1, index))
      BY <1>b, <3>2, <3>3, NothingAdded
    <3> DEFINE s == SubSeq(node_options, 1, index + 1)
    <3>5. s \in Seq(Chars) /\ c \in Chars
          /\ SubSeq(node_options, 1, index + 2) = Append(s, c)
      <4> DEFINE k == index + 1
      <4>1. k \in 0 .. Len(node_options) /\ k < Len(node_options) /\ k + 1 = index + 2
        BY <3>2
      <4> HIDE DEF k
      <4>2. SubSeq(node_options, 1, k) \in Seq(Chars) /\ node_options[k + 1] \in Chars
            /\ SubSeq(node_options, 1, k + 1) = Append(SubSeq(node_options, 1, k), node_options[k + 1])
        BY <4>1, OneRead
      <4> QED
        BY <4>1, <4>2, Zenon DEF k
    <3> HIDE DEF c, s
    <3>6. OrdinaryOf(Append(s, c)) = OrdinaryOf(s) \o IfOrdinary(c)
      BY <3>5, OrdinaryAppend
    <3>7. OrdinaryOf(Seqs!FlattenSeq(env_argv'))
            = OrdinaryOf(SubSeq(node_options, 1, index)) \o IfOrdinary(c)
      BY <3>1, <3>5, SameAdded
    <3>8. OrdinaryOf(s) = OrdinaryOf(SubSeq(node_options, 1, index))
      BY <3>4 DEF s
    <3> QED
      BY <2>1, <3>1, <3>5, <3>6, <3>7, <3>8, Zenon
  <2> QED
    BY <2>2, <2>3
<1>2. CASE ReadSpace \/ ReadQuote
  <2>1. /\ More /\ NextChar \in {Space, Quote}
        /\ index' = index + 1 /\ UNCHANGED <<node_options, env_argv>>
    BY <1>2, Zenon DEF ReadSpace, ReadQuote
  <2>2. index < Len(node_options) /\ node_options[index + 1] \notin Ordinary
    BY <2>1, Special, Zenon DEF More, NextChar
  <2>3. OrdinaryOf(SubSeq(node_options, 1, index + 1)) = OrdinaryOf(SubSeq(node_options, 1, index))
    BY <1>b, <2>2, NothingAdded
  <2> QED
    BY <1>a, <2>1, <2>3, Zenon
<1>3. CASE ReadChar
  <2> DEFINE c == node_options[index + 1]
             s == SubSeq(node_options, 1, index)
  <2>1. /\ More /\ Put(c) /\ index' = index + 1 /\ node_options' = node_options
    BY <1>3, Zenon DEF ReadChar, NextChar
  <2>2. s \in Seq(Chars) /\ c \in Chars
        /\ SubSeq(node_options, 1, index + 1) = Append(s, c)
    BY <1>b, <2>1, OneRead DEF More
  <2> HIDE DEF c
  <2>3. OrdinaryOf(Seqs!FlattenSeq(env_argv')) = OrdinaryOf(s) \o IfOrdinary(c)
    BY <2>1, <2>2, SameAdded
  <2> HIDE DEF s
  <2>4. OrdinaryOf(Append(s, c)) = OrdinaryOf(s) \o IfOrdinary(c)
    BY <2>2, OrdinaryAppend
  <2> QED
    BY <2>1, <2>2, <2>3, <2>4, Zenon
<1>4. CASE EndOfText \/ UNCHANGED lex_vars
  <2>1. UNCHANGED <<env_argv, index, node_options>>
    BY <1>4, Zenon DEF EndOfText, lex_vars
  <2> QED
    BY <1>a, <2>1, Zenon
<1> QED
  BY <1>1, <1>2, <1>3, <1>4, LexerCases

\* The quotes among the first k characters.
Quotes(k) == {i \in 1 .. k : node_options[i] = Quote}

\* Whether a number is odd.
Odd(n) == n % 2 = 1

\* Whether the lexer is in a string is told by the quotes that it has read, in
\* a text without backslashes; and it returns at the end of such a text.
Paired ==
  Backslash \notin Seqs!ToSet(node_options) =>
    /\ is_in_string <=> Odd(Cardinality(Quotes(index)))
    /\ ~done => lex_errors = {}
    /\ done => index = Len(node_options) /\ (lex_errors # {} <=> is_in_string)

\* The quotes read so far can be counted, and the next character is not among
\* them.
LEMMA QuotesFinite ==
  ASSUME NEW k \in Nat
  PROVE  IsFiniteSet(Quotes(k)) /\ Cardinality(Quotes(k)) \in Nat /\ k + 1 \notin Quotes(k)
<1>1. IsFiniteSet(1 .. k)
  BY FS_Interval
<1>2. Quotes(k) \in SUBSET (1 .. k)
  BY DEF Quotes
<1>3. IsFiniteSet(Quotes(k))
  BY <1>1, <1>2, FS_Subset
<1>4. k + 1 \notin Quotes(k)
  BY <1>2
<1> QED
  BY <1>3, <1>4, FS_CardinalityType

\* One more quote changes the parity, any other character does not.
LEMMA OneQuote ==
  ASSUME NEW k \in Nat
  PROVE  /\ node_options[k + 1] = Quote =>
              (Odd(Cardinality(Quotes(k + 1))) <=> ~Odd(Cardinality(Quotes(k))))
         /\ node_options[k + 1] # Quote => Quotes(k + 1) = Quotes(k)
<1>1. IsFiniteSet(Quotes(k)) /\ Cardinality(Quotes(k)) \in Nat /\ k + 1 \notin Quotes(k)
  BY QuotesFinite
<1>2. ASSUME node_options[k + 1] = Quote
      PROVE  Odd(Cardinality(Quotes(k + 1))) <=> ~Odd(Cardinality(Quotes(k)))
  <2>1. Quotes(k + 1) = Quotes(k) \cup {k + 1}
    BY <1>2 DEF Quotes
  <2>2. Cardinality(Quotes(k + 1)) = Cardinality(Quotes(k)) + 1
    BY <1>1, <2>1, FS_AddElement
  <2> DEFINE n == Cardinality(Quotes(k))
  <2>3. n \in Nat /\ Cardinality(Quotes(k + 1)) = n + 1
    BY <1>1, <2>2
  <2> HIDE DEF n
  <2>4. (n + 1) % 2 = 1 <=> ~(n % 2 = 1)
    BY <2>3
  <2> QED
    BY <2>3, <2>4, Zenon DEF Odd, n
<1>3. ASSUME node_options[k + 1] # Quote PROVE Quotes(k + 1) = Quotes(k)
  BY <1>3 DEF Quotes
<1> QED
  BY <1>2, <1>3, Zenon

\* In a text without backslashes none is ever next.
LEMMA NoBackslash ==
  ASSUME LexerTyped, More, Backslash \notin Seqs!ToSet(node_options)
  PROVE  NextChar # Backslash
<1>1. index + 1 \in DOMAIN node_options
  BY NextTyped, LenProperties DEF LexerTyped
<1> QED
  BY <1>1, Zenon DEF NextChar, Seqs!ToSet

\* No quote is read at first.
LEMMA PairedInit ==
  ASSUME LexInit
  PROVE  Paired
<1>1. index = 0 /\ done = FALSE /\ is_in_string = FALSE /\ lex_errors = {}
  BY Zenon DEF LexInit
<1>2. Quotes(0) = {}
  BY DEF Quotes
<1>3. ~Odd(Cardinality(Quotes(index)))
  BY <1>1, <1>2, FS_EmptySet DEF Odd
<1> QED
  BY <1>1, <1>3, Zenon DEF Paired

\* A quote opens or closes a string, and nothing else does.
LEMMA PairedStep ==
  ASSUME LexerTyped, Paired, [LexNext]_lex_vars
  PROVE  Paired'
<1>a. node_options' = node_options
  BY LexerCases, Zenon DEF ReadEscaped, ReadSpace, ReadQuote, ReadChar,
     EndOfText, lex_vars
<1> SUFFICES ASSUME Backslash \notin Seqs!ToSet(node_options)
             PROVE  /\ is_in_string' <=> Odd(Cardinality(Quotes(index')))
                    /\ ~done' => lex_errors' = {}
                    /\ done' => index' = Len(node_options) /\ (lex_errors' # {} <=> is_in_string')
  <2>1. Quotes(index)' = Quotes(index')
    BY <1>a DEF Quotes
  <2> QED
    BY <1>a, <2>1, Zenon DEF Paired
<1>b. /\ is_in_string <=> Odd(Cardinality(Quotes(index)))
      /\ ~done => lex_errors = {}
      /\ done => index = Len(node_options) /\ (lex_errors # {} <=> is_in_string)
  BY Zenon DEF Paired
<1>c. index \in Nat
  BY DEF LexerTyped
<1>1. CASE ReadEscaped
  BY <1>1, NoBackslash, Zenon DEF ReadEscaped, Escapes
<1>2. CASE ReadQuote
  <2>1. /\ More /\ node_options[index + 1] = Quote /\ is_in_string' = ~is_in_string
        /\ index' = index + 1 /\ UNCHANGED <<lex_errors, done>>
    BY <1>2, Zenon DEF ReadQuote, NextChar
  <2>2. ~done
    BY <2>1, Zenon DEF More
  <2>3. Odd(Cardinality(Quotes(index + 1))) <=> ~Odd(Cardinality(Quotes(index)))
    BY <1>c, <2>1, OneQuote
  <2> QED
    BY <1>b, <2>1, <2>2, <2>3, Zenon
<1>3. CASE ReadSpace \/ ReadChar
  <2>1. /\ More /\ is_in_string' = is_in_string
        /\ index' = index + 1 /\ UNCHANGED <<lex_errors, done>>
    BY <1>3, Zenon DEF ReadSpace, ReadChar
  <2>2. node_options[index + 1] # Quote
    BY <1>3, Special, Zenon DEF ReadSpace, ReadChar, NextChar
  <2>3. ~done
    BY <2>1, Zenon DEF More
  <2>4. Quotes(index + 1) = Quotes(index)
    BY <1>c, <2>2, OneQuote
  <2> QED
    BY <1>b, <2>1, <2>3, <2>4, Zenon
<1>4. CASE EndOfText
  <2>1. /\ ~done /\ index = Len(node_options) /\ done' = TRUE
        /\ lex_errors' = lex_errors \cup ErrorsAtEnd
        /\ UNCHANGED <<index, is_in_string>>
    BY <1>4, Zenon DEF EndOfText
  <2>2. lex_errors' = ErrorsAtEnd
    BY <1>b, <2>1
  <2>3. lex_errors' # {} <=> is_in_string
    BY <2>2, Zenon DEF ErrorsAtEnd
  <2> QED
    BY <1>b, <2>1, <2>3, Zenon
<1>5. CASE UNCHANGED lex_vars
  BY <1>b, <1>5, Zenon DEF lex_vars
<1> QED
  BY <1>1, <1>2, <1>3, <1>4, <1>5, LexerCases

\* At the end these invariants say what TextKept does.
LEMMA TextOf ==
  ASSUME LexerTyped, CharsKept, Paired
  PROVE  TextKept
<1>1. LexTypeOK
  <2>1. /\ env_argv \in Seq(Seq(Chars))
        /\ <<>> \notin Seqs!ToSet(env_argv)
    <3>1. env_argv \in Seq(Seq(Chars) \ {<<>>})
      BY DEF LexerTyped
    <3>2. env_argv \in Seq(Seq(Chars))
      BY <3>1, SeqMonotonic
    <3>3. \A i \in DOMAIN env_argv : env_argv[i] # <<>>
      <4>1. \A i \in 1 .. Len(env_argv) : env_argv[i] \in Seq(Chars) \ {<<>>}
        BY <3>1, ElementOfSeq
      <4> QED
        BY <3>1, <4>1, LenProperties
    <3> QED
      BY <3>2, <3>3, Zenon DEF Seqs!ToSet
  <2> QED
    BY <2>1 DEF LexTypeOK, LexerTyped
<1>2. QuotesPaired
  <2> SUFFICES ASSUME done, Backslash \notin Seqs!ToSet(node_options)
               PROVE  lex_errors # {} <=>
                        Cardinality({i \in DOMAIN node_options : node_options[i] = Quote}) % 2 = 1
    BY DEF QuotesPaired
  <2>1. DOMAIN node_options = 1 .. Len(node_options)
    BY LenProperties DEF LexerTyped
  <2>2. /\ is_in_string <=> Odd(Cardinality(Quotes(index)))
        /\ index = Len(node_options) /\ (lex_errors # {} <=> is_in_string)
    BY Zenon DEF Paired
  <2>3. Quotes(index) = {i \in DOMAIN node_options : node_options[i] = Quote}
    BY <2>1, <2>2, Zenon DEF Quotes
  <2> QED
    BY <2>2, <2>3, Zenon DEF Odd
<1> QED
  BY <1>1, <1>2, Zenon DEF TextKept

\* TextKept: for any text, ParseNodeOptionsEnvVar's loop neither loses nor
\* doubles a character, and refuses a text without backslashes exactly if a
\* quote has no partner.
THEOREM NothingLost ==
  LexSpec => []TextKept
<1> DEFINE Kept3 == LexerTyped /\ CharsKept /\ Paired
<1>1. LexInit => Kept3
  BY LexerInit, KeptInit, PairedInit
<1>2. Kept3 /\ [LexNext]_lex_vars => Kept3'
  <2> SUFFICES ASSUME Kept3, [LexNext]_lex_vars PROVE Kept3'
    OBVIOUS
  <2>1. LexerTyped'
    BY LexerStep
  <2> QED
    BY <2>1, KeptStep, PairedStep
<1>3. Kept3 => TextKept
  BY TextOf
<1> QED
  BY <1>1, <1>2, <1>3, PTL DEF LexSpec

\* How a character is written in quotes, and a sequence of them.
Escaped(c) == IF c \in {Quote, Backslash} THEN <<Backslash, c>> ELSE <<c>>

\* A word as it stands between quotes.
Body(v) == Seqs!FlattenSeq([i \in DOMAIN v |-> Escaped(v[i])])

\* The parts of two sequences put together.
LEMMA FrontPart ==
  ASSUME NEW S, NEW s \in Seq(S), s # <<>>, NEW t \in Seq(S)
  PROVE  /\ s \o t \in Seq(S) /\ s \o t # <<>>
         /\ Head(s) \in S /\ Tail(s) \in Seq(S)
         /\ Head(s \o t) = Head(s) /\ Tail(s \o t) = Tail(s) \o t
<1> DEFINE st == s \o t
           tt == Tail(s) \o t
<1>1. /\ Len(s) \in Nat \ {0} /\ Len(t) \in Nat
      /\ st \in Seq(S) /\ Len(st) = Len(s) + Len(t)
      /\ \A i \in 1 .. Len(s) + Len(t) : st[i] = IF i <= Len(s) THEN s[i] ELSE t[i - Len(s)]
  BY ConcatProperties, LenProperties, EmptySeq
<1> HIDE DEF st
<1>2. st # <<>>
  BY <1>1
<1>3. /\ Head(s) \in S /\ Tail(s) \in Seq(S) /\ Len(Tail(s)) = Len(s) - 1 /\ Head(s) = s[1]
      /\ \A i \in 1 .. Len(s) - 1 : Tail(s)[i] = s[i + 1]
  BY HeadTailProperties
<1>4. /\ Tail(st) \in Seq(S) /\ Len(Tail(st)) = Len(st) - 1 /\ Head(st) = st[1]
      /\ \A i \in 1 .. Len(st) - 1 : Tail(st)[i] = st[i + 1]
  BY <1>1, <1>2, HeadTailProperties
<1>5. /\ tt \in Seq(S) /\ Len(tt) = Len(s) - 1 + Len(t)
      /\ \A i \in 1 .. Len(s) - 1 + Len(t) :
           tt[i] = IF i <= Len(s) - 1 THEN Tail(s)[i] ELSE t[i - (Len(s) - 1)]
  BY <1>3, ConcatProperties
<1> HIDE DEF tt
<1>6. Head(st) = Head(s)
  <2>1. 1 \in 1 .. Len(s) + Len(t) /\ 1 <= Len(s)
    BY <1>1
  <2> QED
    BY <1>1, <1>3, <1>4, <2>1
<1>7. Len(Tail(st)) = Len(tt)
  BY <1>1, <1>4, <1>5
<1>8. ASSUME NEW i \in 1 .. Len(Tail(st)) PROVE Tail(st)[i] = tt[i]
  <2>1. i \in 1 .. Len(s) - 1 + Len(t) /\ i + 1 \in 1 .. Len(s) + Len(t) /\ i \in 1 .. Len(st) - 1
    BY <1>1, <1>4
  <2>2. Tail(st)[i] = st[i + 1]
    BY <1>4, <2>1
  <2>3. CASE i <= Len(s) - 1
    <3>1. st[i + 1] = s[i + 1]
      BY <1>1, <2>1, <2>3
    <3>2. tt[i] = Tail(s)[i] /\ Tail(s)[i] = s[i + 1]
      BY <1>3, <1>5, <2>1, <2>3
    <3> QED
      BY <2>2, <3>1, <3>2
  <2>4. CASE ~(i <= Len(s) - 1)
    <3>1. st[i + 1] = t[i + 1 - Len(s)]
      BY <1>1, <2>1, <2>4
    <3>2. tt[i] = t[i - (Len(s) - 1)]
      BY <1>5, <2>1, <2>4
    <3>3. i + 1 - Len(s) = i - (Len(s) - 1)
      BY <1>1
    <3> QED
      BY <2>2, <3>1, <3>2, <3>3
  <2> QED
    BY <2>3, <2>4
<1>9. Tail(st) = tt
  BY <1>4, <1>5, <1>7, <1>8, SeqEqual
<1> QED
  BY <1>1, <1>2, <1>3, <1>6, <1>9 DEF st, tt

\* A character in front of a text.
LEMMA FrontOne ==
  ASSUME NEW S, NEW c \in S, NEW t \in Seq(S)
  PROVE  /\ <<c>> \in Seq(S) /\ <<c>> \o t \in Seq(S) /\ <<c>> \o t # <<>>
         /\ Head(<<c>> \o t) = c /\ Tail(<<c>> \o t) = t
<1>1. <<c>> \in Seq(S) /\ <<c>> # <<>> /\ Head(<<c>>) = c /\ Tail(<<c>>) = <<>>
  BY HeadTailProperties
<1>2. <<>> \o t = t
  BY ConcatEmptySeq
<1> QED
  BY <1>1, <1>2, FrontPart

\* What a character becomes is a text.
LEMMA EscapedType ==
  ASSUME NEW c \in Chars
  PROVE  Escaped(c) \in Seq(Chars)
<1>1. Backslash \in Chars
  BY Special
<1> QED
  BY <1>1 DEF Escaped

\* What a word becomes is a text.
LEMMA BodyType ==
  ASSUME NEW v \in Seq(Chars)
  PROVE  /\ [i \in DOMAIN v |-> Escaped(v[i])] \in Seq(Seq(Chars))
         /\ Len([i \in DOMAIN v |-> Escaped(v[i])]) = Len(v)
         /\ Body(v) \in Seq(Chars)
<1> DEFINE marks == [i \in DOMAIN v |-> Escaped(v[i])]
<1>1. Len(v) \in Nat /\ DOMAIN v = 1 .. Len(v) /\ \A i \in 1 .. Len(v) : v[i] \in Chars
  BY LenProperties, ElementOfSeq
<1>2. \A i \in 1 .. Len(v) : Escaped(v[i]) \in Seq(Chars)
  BY <1>1, EscapedType
<1>3. marks \in Seq(Seq(Chars)) /\ Len(marks) = Len(v)
  BY <1>1, <1>2
<1> HIDE DEF marks
<1>4. Seqs!FlattenSeq(marks) \in Seq(Chars)
  BY <1>3, FlattenType
<1> QED
  BY <1>3, <1>4 DEF Body, marks

\* Nothing becomes nothing.
LEMMA BodyEmpty == Body(<<>>) = <<>>
<1>1. [i \in DOMAIN <<>> |-> Escaped(<<>>[i])] = <<>>
  OBVIOUS
<1> QED
  BY <1>1, FlattenEmpty, Zenon DEF Body

\* The first character comes first.
LEMMA BodyCons ==
  ASSUME NEW v \in Seq(Chars), v # <<>>
  PROVE  /\ Head(v) \in Chars /\ Tail(v) \in Seq(Chars)
         /\ Body(Tail(v)) \in Seq(Chars)
         /\ Body(v) = Escaped(Head(v)) \o Body(Tail(v))
<1> DEFINE marks(w) == [i \in DOMAIN w |-> Escaped(w[i])]
<1>1. /\ Head(v) \in Chars /\ Tail(v) \in Seq(Chars)
      /\ Len(v) \in Nat \ {0} /\ DOMAIN v = 1 .. Len(v) /\ Head(v) = v[1]
      /\ Len(Tail(v)) = Len(v) - 1 /\ DOMAIN Tail(v) = 1 .. Len(v) - 1
      /\ \A i \in 1 .. Len(v) - 1 : Tail(v)[i] = v[i + 1]
  BY HeadTailProperties, LenProperties, EmptySeq
<1>2. /\ marks(v) \in Seq(Seq(Chars)) /\ Len(marks(v)) = Len(v)
      /\ marks(Tail(v)) \in Seq(Seq(Chars)) /\ Len(marks(Tail(v))) = Len(v) - 1
  BY <1>1, BodyType
<1>3. /\ \A i \in 1 .. Len(v) : marks(v)[i] = Escaped(v[i])
      /\ \A i \in 1 .. Len(v) - 1 : marks(Tail(v))[i] = Escaped(v[i + 1])
  BY <1>1
<1> HIDE DEF marks
<1>4. marks(v) # <<>>
  BY <1>1, <1>2, EmptySeq
<1>5. Head(marks(v)) = Escaped(Head(v))
  BY <1>1, <1>2, <1>3, <1>4
<1>6. Tail(marks(v)) = marks(Tail(v))
  <2>1. /\ Tail(marks(v)) \in Seq(Seq(Chars)) /\ Len(Tail(marks(v))) = Len(v) - 1
        /\ \A i \in 1 .. Len(v) - 1 : Tail(marks(v))[i] = marks(v)[i + 1]
    BY <1>2, <1>4, HeadTailProperties
  <2>2. ASSUME NEW i \in 1 .. Len(Tail(marks(v)))
        PROVE  Tail(marks(v))[i] = marks(Tail(v))[i]
    <3>1. i \in 1 .. Len(v) - 1 /\ i + 1 \in 1 .. Len(v)
      BY <1>1, <2>1
    <3>2. Tail(marks(v))[i] = marks(v)[i + 1]
      BY <2>1, <3>1
    <3>3. marks(v)[i + 1] = Escaped(v[i + 1]) /\ marks(Tail(v))[i] = Escaped(v[i + 1])
      BY <1>3, <3>1
    <3> QED
      BY <3>2, <3>3
  <2> QED
    BY <1>2, <2>1, <2>2, SeqEqual
<1>7. Seqs!FlattenSeq(marks(v)) = Head(marks(v)) \o Seqs!FlattenSeq(Tail(marks(v)))
  BY <1>2, <1>4, FlattenCons
<1>8. Body(v) = Seqs!FlattenSeq(marks(v)) /\ Body(Tail(v)) = Seqs!FlattenSeq(marks(Tail(v)))
  BY Zenon DEF Body, marks
<1>9. Body(Tail(v)) \in Seq(Chars)
  BY <1>1, BodyType
<1> QED
  BY <1>1, <1>5, <1>6, <1>7, <1>8, <1>9, Zenon

\* A quoted word is its body between two quotes.
LEMMA QuotedIs ==
  ASSUME NEW word
  PROVE  Quoted(word) = <<Quote>> \o Body(word) \o <<Quote>>
BY Zenon DEF Quoted, Body, Escaped

\* Words that are not empty.
Nonempty == Seq(Chars) \ {<<>>}

\* How a word may be written.
Ways(word) == Bare(word) \cup {Quoted(word)}

\* The text t is the list of words, with the i-th written as p[i].
WrittenAs(t, words, p) ==
  /\ p \in [DOMAIN words -> UNION {Ways(words[i]) : i \in DOMAIN words}]
  /\ \A i \in DOMAIN words : p[i] \in Ways(words[i])
  /\ t = Seqs!FlattenSeq([i \in DOMAIN words |-> p[i] \o <<Space>>])

\* A text is what a list may look like if each word is written in some way.
LEMMA WrittenHow ==
  ASSUME NEW words, NEW t
  PROVE  t \in Written(words) <=> \E p : WrittenAs(t, words, p)
<1> DEFINE ways == [i \in DOMAIN words |-> Bare(words[i]) \cup {Quoted(words[i])}]
           picks == {p \in [DOMAIN words -> UNION {ways[i] : i \in DOMAIN words}] :
                       \A i \in DOMAIN words : p[i] \in ways[i]}
<1>1. t \in Written(words) <=>
        \E p \in picks : t = Seqs!FlattenSeq([i \in DOMAIN words |-> p[i] \o <<Space>>])
  BY DEF Written
<1>2. \A i \in DOMAIN words : ways[i] = Ways(words[i])
  BY DEF Ways
<1>3. {ways[i] : i \in DOMAIN words} = {Ways(words[i]) : i \in DOMAIN words}
  BY <1>2
<1> HIDE DEF ways
<1>4. ASSUME NEW p
      PROVE  p \in picks <=> /\ p \in [DOMAIN words -> UNION {Ways(words[i]) : i \in DOMAIN words}]
                             /\ \A i \in DOMAIN words : p[i] \in Ways(words[i])
  BY <1>2, <1>3, Zenon
<1> HIDE DEF picks
<1> QED
  BY <1>1, <1>4, Zenon DEF WrittenAs

\* A word is written as a text.
LEMMA WayTyped ==
  ASSUME NEW word \in Seq(Chars), NEW w \in Ways(word)
  PROVE  w \in Seq(Chars)
<1>1. w = word \/ w = Quoted(word)
  BY Zenon DEF Ways, Bare
<1> QED
  BY <1>1, QuotedType

\* The first word of a list, and what the others look like.
LEMMA WrittenCons ==
  ASSUME NEW words \in Seq(Nonempty), words # <<>>,
         NEW t \in Written(words)
  PROVE  /\ Head(words) \in Nonempty /\ Tail(words) \in Seq(Nonempty)
         /\ \E w \in Ways(Head(words)), u \in Written(Tail(words)) :
              /\ w \in Seq(Chars) /\ u \in Seq(Chars)
              /\ t = w \o (<<Space>> \o u)
<1>a. /\ Head(words) \in Nonempty /\ Tail(words) \in Seq(Nonempty)
      /\ Len(words) \in Nat \ {0} /\ DOMAIN words = 1 .. Len(words) /\ Head(words) = words[1]
      /\ Len(Tail(words)) = Len(words) - 1 /\ DOMAIN Tail(words) = 1 .. Len(words) - 1
      /\ \A i \in 1 .. Len(words) - 1 : Tail(words)[i] = words[i + 1]
      /\ \A i \in 1 .. Len(words) : words[i] \in Nonempty
  BY HeadTailProperties, LenProperties, EmptySeq, ElementOfSeq
<1>d. \A a \in Seq(Chars) : \A b \in Seq(Chars) : \A c \in Seq(Chars) :
        a \o (b \o c) = (a \o b) \o c
  BY Associates
<1>1. PICK p : /\ p \in [DOMAIN words -> UNION {Ways(words[i]) : i \in DOMAIN words}]
               /\ \A i \in DOMAIN words : p[i] \in Ways(words[i])
               /\ t = Seqs!FlattenSeq([i \in DOMAIN words |-> p[i] \o <<Space>>])
  <2>1. PICK p : WrittenAs(t, words, p)
    BY WrittenHow
  <2> QED
    BY <2>1, Zenon DEF WrittenAs
<1> DEFINE n == Len(words)
           spaced == [i \in 1 .. n |-> p[i] \o <<Space>>]
           q == [i \in 1 .. n - 1 |-> p[i + 1]]
           after == [i \in 1 .. n - 1 |-> q[i] \o <<Space>>]
           u == Seqs!FlattenSeq(after)
<1>2. ASSUME NEW i \in 1 .. n
      PROVE  p[i] \in Seq(Chars) /\ p[i] \in Ways(words[i])
             /\ p[i] \o <<Space>> \in Seq(Chars)
  <2>1. words[i] \in Seq(Chars) /\ p[i] \in Ways(words[i])
    BY <1>a, <1>1 DEF Nonempty
  <2>2. p[i] \in Seq(Chars)
    BY <2>1, WayTyped
  <2>3. <<Space>> \in Seq(Chars)
    BY Special
  <2> QED
    BY <2>1, <2>2, <2>3, ConcatProperties
<1>b. n \in Nat \ {0} /\ 1 \in 1 .. n /\ n - 1 \in Nat
  BY <1>a
<1> HIDE DEF n
<1>3. spaced \in Seq(Seq(Chars)) /\ Len(spaced) = n /\ spaced[1] = p[1] \o <<Space>>
      /\ \A i \in 1 .. n : spaced[i] = p[i] \o <<Space>>
  BY <1>b, <1>2
<1>4. /\ \A i \in 1 .. n - 1 : i + 1 \in 1 .. n /\ q[i] = p[i + 1]
      /\ \A i \in 1 .. n - 1 : after[i] = p[i + 1] \o <<Space>>
  BY <1>b
<1>5. after \in Seq(Seq(Chars)) /\ Len(after) = n - 1
  <2>1. \A i \in 1 .. n - 1 : p[i + 1] \o <<Space>> \in Seq(Chars)
    BY <1>2, <1>4
  <2>2. after = [i \in 1 .. n - 1 |-> p[i + 1] \o <<Space>>]
    BY <1>4
  <2> QED
    BY <1>b, <2>1, <2>2
<1>6. t = Seqs!FlattenSeq(spaced)
  BY <1>a, <1>1, Zenon DEF n
<1>c. /\ DOMAIN q = 1 .. n - 1 /\ DOMAIN Tail(words) = 1 .. n - 1
  BY <1>a DEF n
<1>7. u \in Written(Tail(words))
  <2>1. \A i \in 1 .. n - 1 : q[i] \in Ways(Tail(words)[i])
    <3>1. ASSUME NEW i \in 1 .. n - 1 PROVE q[i] \in Ways(Tail(words)[i])
      <4>1. i + 1 \in 1 .. n /\ q[i] = p[i + 1] /\ Tail(words)[i] = words[i + 1]
        BY <1>a, <1>4 DEF n
      <4>2. p[i + 1] \in Ways(words[i + 1])
        BY <1>2, <4>1
      <4> QED
        BY <4>1, <4>2, Zenon
    <3> QED
      BY <3>1
  <2>2. q \in [1 .. n - 1 -> UNION {Ways(Tail(words)[i]) : i \in 1 .. n - 1}]
    <3>1. \A i \in 1 .. n - 1 : q[i] \in UNION {Ways(Tail(words)[j]) : j \in 1 .. n - 1}
      BY <2>1, Zenon
    <3>2. q = [i \in 1 .. n - 1 |-> q[i]]
      OBVIOUS
    <3> HIDE DEF q
    <3> QED
      BY <3>1, <3>2, Zenon
  <2>3. u = Seqs!FlattenSeq([i \in 1 .. n - 1 |-> q[i] \o <<Space>>])
    BY Zenon
  <2> HIDE DEF q, u
  <2> QED
    BY <1>c, <2>1, <2>2, <2>3, WrittenHow, Zenon DEF WrittenAs
<1>8. spaced # <<>> /\ Head(spaced) = p[1] \o <<Space>>
  <2> HIDE DEF spaced
  <2>1. spaced # <<>>
    BY <1>b, <1>3, EmptySeq
  <2>2. Head(spaced) = spaced[1]
    BY <1>3, <2>1
  <2> QED
    BY <1>3, <2>1, <2>2, Zenon
<1>9. Tail(spaced) = after
  <2>0. /\ \A i \in 1 .. n : spaced[i] = p[i] \o <<Space>>
        /\ \A i \in 1 .. n - 1 : after[i] = p[i + 1] \o <<Space>>
    BY <1>3, <1>4
  <2> HIDE DEF spaced, after
  <2>1. /\ Tail(spaced) \in Seq(Seq(Chars)) /\ Len(Tail(spaced)) = n - 1
        /\ \A i \in 1 .. n - 1 : Tail(spaced)[i] = spaced[i + 1]
    BY <1>3, <1>8, HeadTailProperties
  <2>2. ASSUME NEW i \in 1 .. Len(Tail(spaced)) PROVE Tail(spaced)[i] = after[i]
    <3>1. i \in 1 .. n - 1 /\ i + 1 \in 1 .. n
      BY <1>b, <2>1
    <3>2. Tail(spaced)[i] = spaced[i + 1] /\ spaced[i + 1] = p[i + 1] \o <<Space>>
      BY <2>0, <2>1, <3>1
    <3>3. after[i] = p[i + 1] \o <<Space>>
      BY <2>0, <3>1
    <3> QED
      BY <3>2, <3>3, Zenon
  <2> QED
    BY <1>5, <2>1, <2>2, SeqEqual
<1>10. u \in Seq(Chars)
  <2> HIDE DEF after
  <2> QED
    BY <1>5, FlattenType
<1>11. t = (p[1] \o <<Space>>) \o u
  <2>1. Seqs!FlattenSeq(spaced) = Head(spaced) \o Seqs!FlattenSeq(Tail(spaced))
    <3> HIDE DEF spaced
    <3> QED
      BY <1>3, <1>8, FlattenCons
  <2> QED
    BY <1>6, <1>8, <1>9, <2>1, Zenon
<1> HIDE DEF u
<1>12. t = p[1] \o (<<Space>> \o u)
  <2>1. p[1] \in Seq(Chars) /\ <<Space>> \in Seq(Chars)
    BY <1>b, <1>2, Special
  <2>2. (p[1] \o <<Space>>) \o u = p[1] \o (<<Space>> \o u)
    BY <1>10, <1>d, <2>1, Zenon
  <2> QED
    BY <1>11, <2>2, Zenon
<1>13. p[1] \in Ways(Head(words)) /\ p[1] \in Seq(Chars)
  BY <1>a, <1>b, <1>2
<1> QED
  BY <1>a, <1>7, <1>10, <1>12, <1>13, Zenon

\* An empty list looks like nothing.
LEMMA WrittenEmpty ==
  ASSUME NEW t \in Written(<<>>)
  PROVE  t = <<>>
<1>1. PICK p : t = Seqs!FlattenSeq([i \in DOMAIN <<>> |-> p[i] \o <<Space>>])
  <2>1. PICK p : WrittenAs(t, <<>>, p)
    BY WrittenHow
  <2> QED
    BY <2>1, Zenon DEF WrittenAs
<1>2. [i \in DOMAIN <<>> |-> p[i] \o <<Space>>] = <<>>
  OBVIOUS
<1> QED
  BY <1>1, <1>2, FlattenEmpty, Zenon

\* What is left of the text after the first k characters.
After(k) == SubSeq(node_options, k + 1, Len(node_options))

\* The text behind a position: empty, or a character and the text behind that.
LEMMA AfterType ==
  ASSUME LexerTyped, NEW k \in 0 .. Len(node_options)
  PROVE  /\ After(k) \in Seq(Chars)
         /\ k = Len(node_options) => After(k) = <<>>
         /\ k < Len(node_options) =>
              /\ After(k) # <<>> /\ Head(After(k)) = node_options[k + 1]
              /\ Tail(After(k)) = After(k + 1)
<1>1. /\ node_options \in Seq(Chars) /\ Len(node_options) \in Nat /\ k \in Nat
      /\ k + 1 \in Int /\ Len(node_options) \in Int
  BY LenProperties DEF LexerTyped
<1>2. \A i \in k + 1 .. Len(node_options) : node_options[i] \in Chars
  <2>1. ASSUME NEW i \in k + 1 .. Len(node_options) PROVE node_options[i] \in Chars
    <3>1. i \in 1 .. Len(node_options)
      BY <1>1
    <3> QED
      BY <1>1, <3>1, ElementOfSeq
  <2> QED
    BY <2>1
<1>3. /\ After(k) \in Seq(Chars)
      /\ Len(After(k)) = IF k + 1 <= Len(node_options) THEN Len(node_options) - (k + 1) + 1 ELSE 0
  <2> DEFINE m == k + 1
  <2>1. m \in Int /\ \A i \in m .. Len(node_options) : node_options[i] \in Chars
    BY <1>1, <1>2
  <2> HIDE DEF m
  <2>2. /\ SubSeq(node_options, m, Len(node_options)) \in Seq(Chars)
        /\ Len(SubSeq(node_options, m, Len(node_options)))
             = IF m <= Len(node_options) THEN Len(node_options) - m + 1 ELSE 0
    BY <1>1, <2>1, SubSeqProperties
  <2> QED
    BY <2>2 DEF After, m
<1>4. ASSUME k = Len(node_options) PROVE After(k) = <<>>
  <2>1. Len(node_options) < k + 1
    BY <1>1, <1>4
  <2> QED
    BY <1>1, <2>1, SubSeqEmpty DEF After
<1>5. ASSUME k < Len(node_options)
      PROVE  /\ After(k) # <<>> /\ Head(After(k)) = node_options[k + 1]
             /\ Tail(After(k)) = After(k + 1)
  <2> DEFINE m == k + 1
  <2>1. m \in 1 .. Len(node_options) /\ Len(node_options) \in m .. Len(node_options)
    BY <1>1, <1>5
  <2>2. After(k) # <<>>
    BY <1>1, <1>3, <1>5, EmptySeq
  <2> HIDE DEF m
  <2>3. /\ Head(SubSeq(node_options, m, Len(node_options))) = node_options[m]
        /\ Tail(SubSeq(node_options, m, Len(node_options)))
             = SubSeq(node_options, m + 1, Len(node_options))
    BY <1>1, <2>1, HeadTailOfSubSeq
  <2> QED
    BY <2>2, <2>3, Zenon DEF After, m
<1> QED
  BY <1>3, <1>4, <1>5

\* A sequence is its first member and the others.
LEMMA HeadAndTail ==
  ASSUME NEW S, NEW s \in Seq(S), s # <<>>
  PROVE  s = <<Head(s)>> \o Tail(s)
<1>1. /\ Head(s) \in S /\ Tail(s) \in Seq(S) /\ Len(s) \in Nat \ {0}
      /\ Len(Tail(s)) = Len(s) - 1 /\ Head(s) = s[1]
      /\ \A i \in 1 .. Len(s) - 1 : Tail(s)[i] = s[i + 1]
  BY HeadTailProperties, EmptySeq
<1>2. <<Head(s)>> \in Seq(S) /\ Len(<<Head(s)>>) = 1 /\ <<Head(s)>>[1] = s[1]
  BY <1>1
<1> DEFINE c == <<Head(s)>>
           t == Tail(s)
           ct == c \o t
<1> HIDE DEF c, t
<1>3. /\ ct \in Seq(S) /\ Len(ct) = Len(c) + Len(t)
      /\ \A i \in 1 .. Len(c) + Len(t) : ct[i] = IF i <= Len(c) THEN c[i] ELSE t[i - Len(c)]
  BY <1>1, <1>2, ConcatProperties DEF c, t
<1> HIDE DEF ct
<1>4. Len(ct) = Len(s) /\ Len(c) = 1 /\ Len(c) + Len(t) = Len(s)
  BY <1>1, <1>2, <1>3 DEF c, t
<1>5. ASSUME NEW i \in 1 .. Len(s) PROVE s[i] = ct[i]
  <2>1. CASE i = 1
    BY <1>2, <1>3, <1>4, <2>1 DEF c
  <2>2. CASE i # 1
    <3>1. i - 1 \in 1 .. Len(s) - 1 /\ i - 1 + 1 = i /\ i \in 1 .. Len(c) + Len(t) /\ ~(i <= Len(c))
      BY <1>1, <1>4, <2>2
    <3>2. t[i - 1] = s[i]
      BY <1>1, <3>1 DEF t
    <3>3. ct[i] = t[i - 1]
      BY <1>3, <1>4, <3>1
    <3> QED
      BY <3>2, <3>3
  <2> QED
    BY <2>1, <2>2
<1>6. s = ct
  BY <1>3, <1>4, <1>5, SeqEqual
<1> QED
  BY <1>6 DEF ct, c, t

\* The last word, when v is put behind it; the list, when v is one more word.
Lasts(a, v) == [a EXCEPT ![Len(a)] = @ \o v]

\* The words so far, once v is read.
Due(v) == IF will_start_new_arg THEN Append(env_argv, v) ELSE Lasts(env_argv, v)

\* The last word of a is longer by v, the others are as they were.
Lengthened(a, v, S) ==
  /\ Len(a) \in 1 .. Len(a) /\ a[Len(a)] \in Seq(S)
  /\ Lasts(a, v) \in Seq(Seq(S)) /\ Len(Lasts(a, v)) = Len(a)
  /\ Lasts(a, v)[Len(a)] = a[Len(a)] \o v
  /\ \A i \in 1 .. Len(a) - 1 : Lasts(a, v)[i] = a[i]

\* Lasts lengthens the last word.
LEMMA LastsIs ==
  ASSUME NEW S, NEW a \in Seq(Seq(S)), a # <<>>, NEW v \in Seq(S)
  PROVE  Lengthened(a, v, S)
<1>1. Len(a) \in 1 .. Len(a) /\ a[Len(a)] \in Seq(S)
  BY LenProperties, EmptySeq, ElementOfSeq
<1> DEFINE x == a[Len(a)] \o v
<1>2. x \in Seq(S)
  BY <1>1, ConcatProperties
<1>3. Lasts(a, v) = [a EXCEPT ![Len(a)] = x]
  BY Zenon DEF Lasts
<1> HIDE DEF x
<1>4. /\ Lasts(a, v) \in Seq(Seq(S)) /\ Len(Lasts(a, v)) = Len(a)
      /\ \A j \in 1 .. Len(a) : Lasts(a, v)[j] = IF j = Len(a) THEN x ELSE a[j]
  BY <1>1, <1>2, <1>3, ExceptSeq
<1>5. \A i \in 1 .. Len(a) - 1 : i \in 1 .. Len(a) /\ i # Len(a)
  BY <1>1
<1>6. \A i \in 1 .. Len(a) - 1 : Lasts(a, v)[i] = a[i]
  BY <1>4, <1>5, Zenon
<1>7. Lasts(a, v)[Len(a)] = x
  BY <1>1, <1>4, Zenon
<1> QED
  BY <1>1, <1>4, <1>6, <1>7, Zenon DEF x, Lengthened

\* Nothing added to the last word changes nothing.
LEMMA LastsEmpty ==
  ASSUME NEW S, NEW a \in Seq(Seq(S)), a # <<>>
  PROVE  Lasts(a, <<>>) = a
<1> DEFINE e == <<>>
<1>1. e \in Seq(S) /\ \A x \in Seq(S) : x \o e = x
  BY EmptySeq, ConcatEmptySeq
<1> HIDE DEF e
<1>2. /\ Len(a) \in 1 .. Len(a) /\ a[Len(a)] \in Seq(S)
      /\ Lasts(a, e) \in Seq(Seq(S)) /\ Len(Lasts(a, e)) = Len(a)
      /\ Lasts(a, e)[Len(a)] = a[Len(a)] \o e
      /\ \A i \in 1 .. Len(a) - 1 : Lasts(a, e)[i] = a[i]
  <2>1. Lengthened(a, e, S)
    BY <1>1, LastsIs
  <2> QED
    BY <2>1, Zenon DEF Lengthened
<1>3. Lasts(a, e)[Len(a)] = a[Len(a)]
  BY <1>1, <1>2, Zenon
<1>4. ASSUME NEW i \in 1 .. Len(a) PROVE Lasts(a, e)[i] = a[i]
  BY <1>2, <1>3
<1>5. Lasts(a, e) = a
  BY <1>2, <1>4, SeqEqual
<1> QED
  BY <1>5 DEF e

\* Two lists of words that are as long, have the same last word and the same
\* words before it are the same.
LEMMA SameLasts ==
  ASSUME NEW S, NEW a \in Seq(S), NEW b \in Seq(S), NEW n \in Nat,
         Len(a) = n + 1, Len(b) = n + 1, a[n + 1] = b[n + 1],
         \A i \in 1 .. n : a[i] = b[i]
  PROVE  a = b
<1>1. ASSUME NEW i \in 1 .. Len(a) PROVE a[i] = b[i]
  <2>1. i = n + 1 \/ i \in 1 .. n
    OBVIOUS
  <2> QED
    BY <2>1
<1> QED
  BY <1>1, SeqEqual

\* A word that is due remains due, but for the character that was put.
LEMMA PutDue ==
  ASSUME LexerTyped, NEW v \in Nonempty, Put(Head(v))
  PROVE  Lasts(env_argv', Tail(v)) = Due(v)
<1> DEFINE C == Chars
           c == Head(v)
           t == Tail(v)
           one == <<c>>
           a == env_argv
<1> HIDE DEF C
<1>a. \A x \in Seq(C) : \A y \in Seq(C) : \A z \in Seq(C) : x \o (y \o z) = (x \o y) \o z
  BY Associates
<1>b. \A b \in Seq(Seq(C)) : \A w \in Seq(C) : b # <<>> => Lengthened(b, w, C)
  BY LastsIs
<1> USE DEF C
<1>1. v \in Seq(C) /\ v # <<>>
  BY DEF Nonempty
<1>2. c \in C /\ t \in Seq(C) /\ v = one \o t
  BY <1>1, HeadTailProperties, HeadAndTail
<1>3. one \in Seq(C)
  BY <1>2
<1>4. a \in Seq(Seq(C)) /\ (~will_start_new_arg => a # <<>>)
  BY SeqMonotonic DEF LexerTyped
<1>p. Put(c)
  OBVIOUS
<1> HIDE DEF C, c, t, one, a
<1>5. CASE will_start_new_arg
  <2> DEFINE new == Append(a, one)
             n == Len(a)
  <2>1. env_argv' = new /\ Due(v) = Append(a, v)
    BY <1>5, <1>p, Zenon DEF Put, Due, a, one
  <2>2. /\ n \in Nat /\ new \in Seq(Seq(C)) /\ new # <<>> /\ Len(new) = n + 1 /\ new[n + 1] = one
        /\ \A i \in 1 .. n : new[i] = a[i]
    BY <1>3, <1>4, AppendProperties, LenProperties
  <2>3. /\ Append(a, v) \in Seq(Seq(C)) /\ Len(Append(a, v)) = n + 1
        /\ Append(a, v)[n + 1] = v
        /\ \A i \in 1 .. n : Append(a, v)[i] = a[i]
    BY <1>1, <1>4, AppendProperties
  <2> HIDE DEF new, n
  <2>4. /\ Lasts(new, t) \in Seq(Seq(C)) /\ Len(Lasts(new, t)) = Len(new)
        /\ Lasts(new, t)[Len(new)] = new[Len(new)] \o t
        /\ \A i \in 1 .. Len(new) - 1 : Lasts(new, t)[i] = new[i]
    BY <1>2, <1>b, <2>2, Zenon DEF Lengthened
  <2>5. Len(new) - 1 = n
    BY <2>2
  <2>6. Lasts(new, t)[n + 1] = v
    BY <1>2, <2>2, <2>4, Zenon
  <2>7. \A i \in 1 .. n : Lasts(new, t)[i] = Append(a, v)[i]
    BY <2>2, <2>3, <2>4, <2>5, Zenon
  <2>8. Lasts(new, t) = Append(a, v)
    BY <2>2, <2>3, <2>4, <2>6, <2>7, SameLasts
  <2> QED
    BY <2>1, <2>8, Zenon DEF t
<1>6. CASE ~will_start_new_arg
  <2> DEFINE new == Lasts(a, one)
             n == Len(a) - 1
  <2>0. a # <<>>
    BY <1>4, <1>6
  <2>1. /\ Len(a) \in 1 .. Len(a) /\ a[Len(a)] \in Seq(C)
        /\ new \in Seq(Seq(C)) /\ Len(new) = Len(a)
        /\ new[Len(a)] = a[Len(a)] \o one
        /\ \A i \in 1 .. n : new[i] = a[i]
    BY <1>3, <1>4, <1>b, <2>0, Zenon DEF Lengthened
  <2>2. env_argv' = new /\ Due(v) = Lasts(a, v)
    <3>1. env_argv' = [a EXCEPT ![Len(a)] = Append(@, c)] /\ Due(v) = Lasts(a, v)
      BY <1>6, <1>p, Zenon DEF Put, Due, a
    <3>2. Append(a[Len(a)], c) = a[Len(a)] \o one
      BY <1>2, <2>1, AppendIsConcat DEF one
    <3> QED
      BY <3>1, <3>2, Zenon DEF Lasts
  <2>3. /\ Lasts(a, v) \in Seq(Seq(C)) /\ Len(Lasts(a, v)) = Len(a)
        /\ Lasts(a, v)[Len(a)] = a[Len(a)] \o v
        /\ \A i \in 1 .. n : Lasts(a, v)[i] = a[i]
    BY <1>1, <1>4, <1>b, <2>0, Zenon DEF Lengthened
  <2>4. n \in Nat /\ Len(a) = n + 1 /\ Len(a) - 1 = n
    BY <2>1
  <2> HIDE DEF new, n
  <2>5. new # <<>>
    BY <2>1, <2>4, EmptySeq
  <2>6. /\ Lasts(new, t) \in Seq(Seq(C)) /\ Len(Lasts(new, t)) = Len(new)
        /\ Lasts(new, t)[Len(new)] = new[Len(new)] \o t
        /\ \A i \in 1 .. Len(new) - 1 : Lasts(new, t)[i] = new[i]
    BY <1>2, <1>b, <2>1, <2>5, Zenon DEF Lengthened
  <2>7. (a[Len(a)] \o one) \o t = a[Len(a)] \o (one \o t)
    BY <1>2, <1>3, <1>a, <2>1, Zenon
  <2>8. Lasts(new, t)[Len(a)] = Lasts(a, v)[Len(a)]
    BY <1>2, <2>1, <2>3, <2>6, <2>7, Zenon
  <2>9. \A i \in 1 .. n : Lasts(new, t)[i] = Lasts(a, v)[i]
    BY <2>1, <2>3, <2>4, <2>6, Zenon
  <2>10. Lasts(new, t) = Lasts(a, v)
    <3>1. Len(Lasts(new, t)) = n + 1 /\ Len(Lasts(a, v)) = n + 1
          /\ Lasts(new, t)[n + 1] = Lasts(a, v)[n + 1]
      BY <2>1, <2>3, <2>4, <2>6, <2>8, Zenon
    <3> QED
      BY <2>3, <2>4, <2>6, <2>9, <3>1, SameLasts
  <2> QED
    BY <2>2, <2>10, Zenon DEF t
<1> QED
  BY <1>5, <1>6

\* The text that is still to be read.
Rest == After(index)

\* The words that were not begun are left, and the rest of the text is what
\* they look like.
BetweenWords(left, u) ==
  /\ ~is_in_string /\ will_start_new_arg
  /\ Rest = u /\ line = env_argv \o left

\* A word without quotes is being read: v is missing of it.
InBareWord(left, v, u) ==
  /\ ~is_in_string /\ ~will_start_new_arg /\ v \in Seq(Ordinary)
  /\ Rest = v \o (<<Space>> \o u)
  /\ line = Lasts(env_argv, v) \o left

\* A word in quotes is being read: v is missing of it.
InQuotes(left, v, u) ==
  /\ is_in_string /\ (will_start_new_arg => v # <<>>)
  /\ Rest = Body(v) \o (<<Quote>> \o (<<Space>> \o u))
  /\ line = Due(v) \o left

\* Where the lexer is: words, and characters v of the word begun, are left.
Stage(left, v, u) ==
  /\ left \in Seq(Nonempty) /\ v \in Seq(Chars)
  /\ u \in Seq(Chars) /\ u \in Written(left)
  /\ BetweenWords(left, u) \/ InBareWord(left, v, u) \/ InQuotes(left, v, u)

\* In one of these three situations.
Coming == \E left, v, u : Stage(left, v, u)

\* A list that was written to arrive is on its way, and no error was met.
Arriving == line # <<>> /\ ~done => lex_errors = {} /\ Coming

\* At first all words are left.
LEMMA ArrivingInit ==
  ASSUME LexInit
  PROVE  Arriving /\ WordsArrive
<1>1. /\ index = 0 /\ done = FALSE /\ is_in_string = FALSE /\ will_start_new_arg = TRUE
      /\ env_argv = <<>> /\ lex_errors = {}
  BY Zenon DEF LexInit
<1>2. ASSUME line # <<>> PROVE Coming
  <2>1. line \in Lines /\ node_options \in Written(line)
    BY <1>2, Zenon DEF LexInit
  <2>2. line \in Seq(Nonempty)
    BY <2>1, LexerAssumption DEF Nonempty
  <2>3. line \in Seq(Seq(Chars))
    BY <2>2, SeqMonotonic DEF Nonempty
  <2>4. node_options \in Seq(Chars)
    BY <2>1, <2>3, WrittenType
  <2>5. Rest = node_options
    <3>1. 0 + 1 = 1
      OBVIOUS
    <3>2. SubSeq(node_options, 1, Len(node_options)) = node_options
      BY <2>4, SubSeqFull
    <3> QED
      BY <1>1, <3>1, <3>2, Zenon DEF Rest, After
  <2>6. line = env_argv \o line
    BY <1>1, <2>2, ConcatEmptySeq
  <2>7. BetweenWords(line, node_options)
    BY <1>1, <2>5, <2>6, Zenon DEF BetweenWords
  <2>8. <<>> \in Seq(Chars)
    BY EmptySeq
  <2> QED
    BY <2>1, <2>2, <2>4, <2>7, <2>8, Zenon DEF Coming, Stage
<1> QED
  BY <1>1, <1>2, Zenon DEF Arriving, WordsArrive

-----------------------------------------------------------------------------
\* Which step is the next one.
LEMMA ReadNext ==
  ASSUME LexerTyped, ~done, Rest # <<>>, NEW c, Head(Rest) = c
  PROVE  /\ More /\ NextChar = c /\ index + 1 \in 0 .. Len(node_options)
         /\ Rest \in Seq(Chars) /\ Tail(Rest) = After(index + 1)
<1>1. index \in 0 .. Len(node_options) /\ Len(node_options) \in Nat
  BY LenProperties DEF LexerTyped
<1>2. index # Len(node_options)
  BY <1>1, AfterType DEF Rest
<1>3. index < Len(node_options)
  BY <1>1, <1>2
<1>4. Rest \in Seq(Chars) /\ Head(Rest) = node_options[index + 1] /\ Tail(Rest) = After(index + 1)
  BY <1>1, <1>3, AfterType DEF Rest
<1> QED
  BY <1>1, <1>3, <1>4 DEF More, NextChar

\* While there is text, the function does not return.
LEMMA NotAtEnd ==
  ASSUME LexerTyped, More
  PROVE  ~EndOfText
<1>1. index # Len(node_options)
  BY LenProperties DEF LexerTyped, More
<1> QED
  BY <1>1, Zenon DEF EndOfText

\* The variables that no reading of a character changes.
TextStays == UNCHANGED <<line, node_options, lex_errors, done>>

\* A quote opens or closes a string.
LEMMA ReadsQuote ==
  ASSUME LexerTyped, LexNext, More, NextChar = Quote
  PROVE  /\ is_in_string' = ~is_in_string /\ index' = index + 1
         /\ env_argv' = env_argv /\ will_start_new_arg' = will_start_new_arg /\ TextStays
<1>1. ~EndOfText
  BY NotAtEnd
<1>2. ReadQuote
  BY <1>1, Special, Zenon DEF LexNext, ReadEscaped, ReadSpace, ReadChar, Escapes
<1> QED
  BY <1>2, Zenon DEF ReadQuote, TextStays

\* A space outside a string ends a word.
LEMMA ReadsSpace ==
  ASSUME LexerTyped, LexNext, More, NextChar = Space,
         ~is_in_string
  PROVE  /\ is_in_string' = is_in_string /\ index' = index + 1
         /\ env_argv' = env_argv /\ will_start_new_arg' = TRUE /\ TextStays
<1>1. ~EndOfText
  BY NotAtEnd
<1>2. ReadSpace
  BY <1>1, Special, Zenon DEF LexNext, ReadEscaped, ReadQuote, ReadChar, Escapes
<1> QED
  BY <1>2, Zenon DEF ReadSpace, TextStays

\* Any other character is put into a word.
LEMMA ReadsChar ==
  ASSUME LexerTyped, LexNext, More, NextChar # Quote,
         is_in_string => NextChar # Backslash,
         ~is_in_string => NextChar # Space
  PROVE  /\ is_in_string' = is_in_string /\ index' = index + 1
         /\ Put(NextChar) /\ TextStays
<1>1. ~EndOfText
  BY NotAtEnd
<1>2. ReadChar
  BY <1>1, Zenon DEF LexNext, ReadEscaped, ReadQuote, ReadSpace, Escapes
<1> QED
  BY <1>2, Zenon DEF ReadChar, TextStays

\* In a string, what a backslash escapes is put into a word.
LEMMA ReadsEscaped ==
  ASSUME LexerTyped, LexNext, More,
         NextChar = Backslash, is_in_string, ~(index + 2 > Len(node_options))
  PROVE  /\ is_in_string' = is_in_string /\ index' = index + 2
         /\ Put(node_options[index + 2]) /\ TextStays
<1>1. ~EndOfText
  BY NotAtEnd
<1>2. ReadEscaped
  BY <1>1, Special, Zenon DEF LexNext, ReadSpace, ReadQuote, ReadChar, Escapes
<1> QED
  BY <1>2, Zenon DEF ReadEscaped, TextStays

\* At the end of the text the function returns.
LEMMA Returns ==
  ASSUME LexNext, Rest = <<>>, LexerTyped
  PROVE  /\ done' = TRUE /\ lex_errors' = lex_errors \cup ErrorsAtEnd
         /\ env_argv' = env_argv /\ line' = line
<1>1. index \in 0 .. Len(node_options) /\ Len(node_options) \in Nat
  BY LenProperties DEF LexerTyped
<1>2. ~(index < Len(node_options))
  BY <1>1, AfterType DEF Rest
<1>3. ~More
  BY <1>2, Zenon DEF More
<1>4. EndOfText
  BY <1>3, Zenon DEF LexNext, ReadEscaped, ReadSpace, ReadQuote, ReadChar
<1> QED
  BY <1>4, Zenon DEF EndOfText

\* What is left of the text after the step.
LEMMA RestThen ==
  ASSUME node_options' = node_options
  PROVE  Rest' = After(index')
BY DEF Rest, After

\* What a step comes to while a list of words arrives.
GoesOn == TextStays /\ Coming'

\* Or the list has arrived.
Arrives == /\ done' = TRUE /\ line' = line /\ env_argv' = line
           /\ lex_errors' = {}

\* A situation after the step will do.
LEMMA StageThen ==
  ASSUME NEW left \in Seq(Nonempty), NEW v \in Seq(Chars), NEW u \in Seq(Chars),
         u \in Written(left),
         BetweenWords(left, u)' \/ InBareWord(left, v, u)' \/ InQuotes(left, v, u)'
  PROVE  Coming'
<1>1. Stage(left, v, u)'
  BY Zenon DEF Stage
<1> QED
  BY <1>1, Zenon DEF Coming

\* Between two words, the next one begins, or all have arrived.
LEMMA FromBetween ==
  ASSUME LexerTyped, LexNext, ~done, lex_errors = {},
         NEW left \in Seq(Nonempty), NEW u \in Written(left), BetweenWords(left, u)
  PROVE  GoesOn \/ Arrives
<1> DEFINE C == Chars
<1>a. /\ ~is_in_string /\ will_start_new_arg /\ Rest = u /\ line = env_argv \o left
  BY Zenon DEF BetweenWords
<1>b. env_argv \in Seq(Nonempty)
  BY DEF LexerTyped, Nonempty
<1>c. <<>> \in Seq(C)
  BY EmptySeq
<1>1. CASE left = <<>>
  <2>1. u = <<>>
    BY <1>1, WrittenEmpty
  <2>2. line = env_argv
    BY <1>a, <1>b, <1>1, ConcatEmptySeq
  <2>3. ErrorsAtEnd = {}
    BY <1>a, Zenon DEF ErrorsAtEnd
  <2>4. /\ done' = TRUE /\ lex_errors' = lex_errors \cup ErrorsAtEnd
        /\ env_argv' = env_argv /\ line' = line
    BY <1>a, <2>1, Returns
  <2>5. lex_errors' = {}
    BY <2>3, <2>4
  <2> QED
    BY <2>2, <2>4, <2>5, Zenon DEF Arrives
<1>2. CASE left # <<>>
  <2> DEFINE word == Head(left)
             after == Tail(left)
  <2>1. /\ word \in Nonempty /\ after \in Seq(Nonempty)
        /\ \E w \in Ways(word), x \in Written(after) :
             /\ w \in Seq(C) /\ x \in Seq(C) /\ u = w \o (<<Space>> \o x)
    BY <1>2, WrittenCons
  <2>2. PICK w \in Ways(word), x \in Written(after) :
          w \in Seq(C) /\ x \in Seq(C) /\ u = w \o (<<Space>> \o x)
    BY <2>1, Zenon
  <2> DEFINE end == <<Space>> \o x
  <2>3. end \in Seq(C)
    BY <2>2, FrontOne, Special
  <2>4. line = Append(env_argv, word) \o after
    <3>1. left = <<word>> \o after /\ <<word>> \in Seq(Nonempty)
      BY <1>2, <2>1, HeadAndTail
    <3>2. env_argv \o (<<word>> \o after) = (env_argv \o <<word>>) \o after
      BY <1>b, <2>1, <3>1, ConcatAssociative
    <3>3. Append(env_argv, word) = env_argv \o <<word>>
      BY <1>b, <2>1, AppendIsConcat
    <3> QED
      BY <1>a, <3>1, <3>2, <3>3, Zenon
  <2>5. word \in Seq(C) /\ word # <<>>
    BY <2>1 DEF Nonempty
  <2>t. LexerTyped
    OBVIOUS
  <2> HIDE DEF word, after, end, C
  <2>6. CASE w \in Bare(word)
    <3>1. w = word /\ Seqs!ToSet(word) \subseteq Ordinary
      BY <2>6, Zenon DEF Bare
    <3>2. word \in Seq(Ordinary)
      <4>1. \A i \in DOMAIN word : word[i] \in Ordinary
        BY <3>1, Zenon DEF Seqs!ToSet
      <4> QED
        BY <2>5, <4>1, LenProperties
    <3>3. /\ Head(word) \in Ordinary /\ Tail(word) \in Seq(Ordinary)
      BY <2>5, <3>2, HeadTailProperties
    <3>4. /\ Rest # <<>> /\ Head(Rest) = Head(word) /\ Tail(Rest) = Tail(word) \o end
          /\ Tail(word) \in Seq(C)
      <4>1. /\ word \o end # <<>> /\ Head(word \o end) = Head(word)
            /\ Tail(word \o end) = Tail(word) \o end /\ Tail(word) \in Seq(C)
        BY <2>3, <2>5, FrontPart
      <4> QED
        BY <1>a, <2>2, <3>1, <4>1, Zenon DEF end
    <3>5. /\ More /\ NextChar = Head(word) /\ Tail(Rest) = After(index + 1)
      BY <3>4, ReadNext
    <3>6. Head(word) # Quote /\ Head(word) # Backslash /\ Head(word) # Space
      BY <3>3, Special, Zenon
    <3>7. /\ is_in_string' = is_in_string /\ index' = index + 1
          /\ Put(Head(word)) /\ TextStays
      BY <3>5, <3>6, ReadsChar
    <3>8. Lasts(env_argv', Tail(word)) = Append(env_argv, word)
      <4>1. Lasts(env_argv', Tail(word)) = Due(word)
        BY <2>1, <3>7, PutDue
      <4> QED
        BY <1>a, <4>1, Zenon DEF Due
    <3>9. Rest' = Tail(word) \o end
      BY <3>4, <3>5, <3>7, RestThen, Zenon DEF TextStays
    <3>10. will_start_new_arg' = FALSE /\ line' = line
      BY <3>7, Zenon DEF Put, TextStays
    <3>11. InBareWord(after, Tail(word), x)'
      BY <1>a, <2>4, <3>3, <3>7, <3>8, <3>9, <3>10, Zenon DEF InBareWord, end
    <3>12. Coming'
      BY <2>1, <2>2, <3>4, <3>11, StageThen DEF C
    <3> QED
      BY <3>7, <3>12, Zenon DEF GoesOn
  <2>7. CASE w = Quoted(word)
    <3> DEFINE close == <<Quote>> \o end
    <3>1. /\ Quote \in C /\ <<Quote>> \in Seq(C) /\ Body(word) \in Seq(C)
          /\ close \in Seq(C)
      BY <2>3, <2>5, BodyType, FrontOne, Special DEF C
    <3>2. u = <<Quote>> \o (Body(word) \o close)
      <4>a. \A a \in Seq(C) : \A b \in Seq(C) : \A c \in Seq(C) : a \o (b \o c) = (a \o b) \o c
        BY Associates
      <4>b. Body(word) \o close \in Seq(C) /\ <<Quote>> \o Body(word) \in Seq(C)
        BY <3>1, ConcatProperties
      <4>1. u = (<<Quote>> \o Body(word) \o <<Quote>>) \o end
        BY <2>2, <2>7, QuotedIs, Zenon DEF end
      <4>2. (<<Quote>> \o Body(word) \o <<Quote>>) \o end
              = (<<Quote>> \o Body(word)) \o close
        BY <2>3, <3>1, <4>a, <4>b, ZenonT(60)
      <4>3. (<<Quote>> \o Body(word)) \o close = <<Quote>> \o (Body(word) \o close)
        BY <3>1, <4>a, Zenon
      <4> QED
        BY <4>1, <4>2, <4>3, Zenon
    <3> HIDE DEF close
    <3>3. /\ Rest # <<>> /\ Head(Rest) = Quote /\ Tail(Rest) = Body(word) \o close
      <4>1. Body(word) \o close \in Seq(C)
        BY <3>1, ConcatProperties
      <4> DEFINE more == Body(word) \o close
      <4> HIDE DEF more
      <4>2. /\ <<Quote>> \o more # <<>> /\ Head(<<Quote>> \o more) = Quote
            /\ Tail(<<Quote>> \o more) = more
        BY <3>1, <4>1, FrontOne DEF more
      <4> QED
        BY <1>a, <3>2, <4>2, Zenon DEF more
    <3>4. /\ More /\ NextChar = Quote /\ Tail(Rest) = After(index + 1)
      BY <3>3, ReadNext
    <3>5. /\ is_in_string' = ~is_in_string /\ index' = index + 1
          /\ env_argv' = env_argv /\ will_start_new_arg' = will_start_new_arg /\ TextStays
      BY <3>4, ReadsQuote
    <3>6. Rest' = Body(word) \o close
      BY <3>3, <3>4, <3>5, RestThen, Zenon DEF TextStays
    <3>7. Due(word)' = Append(env_argv, word) /\ line' = line
      BY <1>a, <3>5, Zenon DEF Due, TextStays
    <3>8. InQuotes(after, word, x)'
      BY <1>a, <2>4, <2>5, <3>5, <3>6, <3>7, Zenon DEF InQuotes, close, end
    <3>9. Coming'
      BY <2>1, <2>2, <2>5, <3>8, StageThen DEF C
    <3> QED
      BY <3>5, <3>9, Zenon DEF GoesOn
  <2> QED
    BY <2>6, <2>7, Zenon DEF Ways
<1> QED
  BY <1>1, <1>2

\* Within a bare word, another character is read, or the space behind it.
LEMMA FromWithin ==
  ASSUME LexerTyped, LexNext, ~done, lex_errors = {},
         NEW left \in Seq(Nonempty), NEW v \in Seq(Chars),
         NEW u \in Written(left), u \in Seq(Chars), InBareWord(left, v, u)
  PROVE  GoesOn
<1> DEFINE C == Chars
           end == <<Space>> \o u
<1>a. /\ ~is_in_string /\ ~will_start_new_arg /\ v \in Seq(Ordinary)
      /\ Rest = v \o end /\ line = Lasts(env_argv, v) \o left
  BY Zenon DEF InBareWord
<1>b. /\ end \in Seq(C) /\ end # <<>> /\ Head(end) = Space /\ Tail(end) = u
  BY FrontOne, Special
<1>c. env_argv \in Seq(Seq(C)) /\ env_argv # <<>>
  BY <1>a, SeqMonotonic DEF LexerTyped
<1>d. <<>> \in Seq(C)
  BY EmptySeq
<1> HIDE DEF end, C
<1>1. CASE v = <<>>
  <2>1. Rest = end
    <3>1. <<>> \o end = end
      BY <1>b, ConcatEmptySeq
    <3> QED
      BY <1>a, <1>1, <3>1, Zenon
  <2>2. /\ More /\ NextChar = Space /\ Tail(Rest) = After(index + 1)
    BY <1>b, <2>1, ReadNext
  <2>3. /\ is_in_string' = is_in_string /\ index' = index + 1
        /\ env_argv' = env_argv /\ will_start_new_arg' = TRUE /\ TextStays
    BY <1>a, <2>2, ReadsSpace
  <2>4. Rest' = u
    BY <1>b, <2>1, <2>2, <2>3, RestThen, Zenon DEF TextStays
  <2>5. Lasts(env_argv, v) = env_argv
    BY <1>1, <1>c, LastsEmpty
  <2>6. BetweenWords(left, u)'
    BY <1>a, <2>3, <2>4, <2>5, Zenon DEF BetweenWords, TextStays
  <2>7. Coming'
    BY <2>6, StageThen
  <2> QED
    BY <2>3, <2>7, Zenon DEF GoesOn
<1>2. CASE v # <<>>
  <2>1. Head(v) \in Ordinary /\ Tail(v) \in Seq(Ordinary)
    BY <1>a, <1>2, HeadTailProperties
  <2>2. /\ Rest # <<>> /\ Head(Rest) = Head(v) /\ Tail(Rest) = Tail(v) \o end /\ Tail(v) \in Seq(C)
    <3>1. v \in Seq(C)
      BY DEF C
    <3>2. /\ v \o end # <<>> /\ Head(v \o end) = Head(v)
          /\ Tail(v \o end) = Tail(v) \o end /\ Tail(v) \in Seq(C)
      BY <1>2, <1>b, <3>1, FrontPart
    <3> QED
      BY <1>a, <3>2, Zenon
  <2>3. /\ More /\ NextChar = Head(v) /\ Tail(Rest) = After(index + 1)
    BY <2>2, ReadNext
  <2>4. Head(v) # Quote /\ Head(v) # Backslash /\ Head(v) # Space
    BY <2>1, Special, Zenon
  <2>5. /\ is_in_string' = is_in_string /\ index' = index + 1
        /\ Put(Head(v)) /\ TextStays
    BY <2>3, <2>4, ReadsChar
  <2>6. Lasts(env_argv', Tail(v)) = Lasts(env_argv, v)
    <3>1. v \in Nonempty
      BY <1>2 DEF Nonempty
    <3>2. Lasts(env_argv', Tail(v)) = Due(v)
      BY <2>5, <3>1, PutDue
    <3> QED
      BY <1>a, <3>2, Zenon DEF Due
  <2>7. Rest' = Tail(v) \o end
    BY <2>2, <2>3, <2>5, RestThen, Zenon DEF TextStays
  <2>8. will_start_new_arg' = FALSE /\ line' = line
    BY <2>5, Zenon DEF Put, TextStays
  <2>9. InBareWord(left, Tail(v), u)'
    BY <1>a, <2>1, <2>5, <2>6, <2>7, <2>8, Zenon DEF InBareWord, end
  <2>10. Coming'
    BY <2>2, <2>9, StageThen DEF C
  <2> QED
    BY <2>5, <2>10, Zenon DEF GoesOn
<1> QED
  BY <1>1, <1>2

\* Within quotes, another character is read, or the quote behind them.
LEMMA FromQuotes ==
  ASSUME LexerTyped, LexNext, ~done, lex_errors = {},
         NEW left \in Seq(Nonempty), NEW v \in Seq(Chars),
         NEW u \in Written(left), u \in Seq(Chars), InQuotes(left, v, u)
  PROVE  GoesOn
<1> DEFINE C == Chars
           end == <<Space>> \o u
           close == <<Quote>> \o end
<1>a. /\ is_in_string /\ (will_start_new_arg => v # <<>>)
      /\ Rest = Body(v) \o close /\ line = Due(v) \o left
  BY Zenon DEF InQuotes
<1>b. end \in Seq(C) /\ Quote \in C /\ Backslash \in C
  BY FrontOne, Special
<1>c. /\ close \in Seq(C) /\ close # <<>> /\ Head(close) = Quote /\ Tail(close) = end
  <2> HIDE DEF end
  <2> QED
    BY <1>b, FrontOne
<1>d. v \in Seq(C)
  OBVIOUS
<1> HIDE DEF end, close, C
<1>1. CASE v = <<>>
  <2>1. Rest = close
    <3>1. <<>> \o close = close
      BY <1>c, ConcatEmptySeq
    <3> QED
      BY <1>a, <1>1, <3>1, BodyEmpty, Zenon
  <2>2. /\ More /\ NextChar = Quote /\ Tail(Rest) = After(index + 1)
    BY <1>c, <2>1, ReadNext
  <2>3. /\ is_in_string' = ~is_in_string /\ index' = index + 1
        /\ env_argv' = env_argv /\ will_start_new_arg' = will_start_new_arg /\ TextStays
    BY <2>2, ReadsQuote
  <2>4. Rest' = <<>> \o end
    <3>1. <<>> \o end = end
      BY <1>b, ConcatEmptySeq
    <3>2. Rest' = end
      BY <1>c, <2>1, <2>2, <2>3, RestThen, Zenon DEF TextStays
    <3> QED
      BY <3>1, <3>2, Zenon
  <2>5. <<>> \in Seq(Ordinary)
    BY EmptySeq
  <2>6. InBareWord(left, v, u)'
    BY <1>1, <1>a, <2>3, <2>4, <2>5, Zenon DEF InBareWord, Due, TextStays, end
  <2>7. Coming'
    BY <2>6, StageThen
  <2> QED
    BY <2>3, <2>7, Zenon DEF GoesOn
<1>2. CASE v # <<>>
  <2> DEFINE c == Head(v)
             t == Tail(v)
             more == Body(t) \o close
  <2>1. /\ c \in C /\ t \in Seq(C) /\ Body(t) \in Seq(C) /\ Body(v) = Escaped(c) \o Body(t)
    BY <1>2, BodyCons DEF C
  <2>2. v \in Nonempty /\ Escaped(c) \in Seq(C)
    BY <1>2, <2>1, EscapedType DEF Nonempty, C
  <2> HIDE DEF t
  <2>3. more \in Seq(C)
    BY <1>c, <2>1, ConcatProperties
  <2>4. Rest = Escaped(c) \o more
    <3>1. (Escaped(c) \o Body(t)) \o close = Escaped(c) \o (Body(t) \o close)
      <4>1. \A x \in Seq(C) : \A y \in Seq(C) : \A z \in Seq(C) : x \o (y \o z) = (x \o y) \o z
        BY Associates
      <4> QED
        BY <1>c, <2>1, <2>2, <4>1, Zenon
    <3> QED
      BY <1>a, <2>1, <3>1, Zenon
  <2> HIDE DEF c, more
  \* What the stage is after the character was put.
  <2>5. ASSUME Put(c), is_in_string' = is_in_string, TextStays, Rest' = more
        PROVE  GoesOn
    <3>1. Lasts(env_argv', t) = Due(v)
      BY <2>2, <2>5, PutDue DEF c, t
    <3>2. will_start_new_arg' = FALSE /\ line' = line
      BY <2>5, Zenon DEF Put, TextStays
    <3>3. Due(t)' = Lasts(env_argv', t)
      BY <3>2, Zenon DEF Due
    <3>4. InQuotes(left, t, u)'
      BY <1>a, <2>5, <3>1, <3>2, <3>3, Zenon DEF InQuotes, more, close, end
    <3>5. Coming'
      BY <2>1, <3>4, StageThen DEF C
    <3> QED
      BY <2>5, <3>5, Zenon DEF GoesOn
  <2>6. CASE c \in {Quote, Backslash}
    <3> DEFINE rest == <<c>> \o more
    <3>1. /\ rest \in Seq(C) /\ rest # <<>> /\ Head(rest) = c /\ Tail(rest) = more
      BY <2>1, <2>3, FrontOne
    <3>2. /\ Rest = <<Backslash>> \o rest
      <4>1. Escaped(c) = <<Backslash, c>>
        BY <2>6 DEF Escaped
      <4>2. <<Backslash, c>> = <<Backslash>> \o <<c>>
        BY <1>b, <2>1, HeadAndTail
      <4>3. \A x \in Seq(C) : \A y \in Seq(C) : \A z \in Seq(C) : x \o (y \o z) = (x \o y) \o z
        BY Associates
      <4>4. <<Backslash>> \in Seq(C) /\ <<c>> \in Seq(C)
        BY <1>b, <2>1
      <4>5. (<<Backslash>> \o <<c>>) \o more = <<Backslash>> \o (<<c>> \o more)
        BY <2>3, <4>3, <4>4, Zenon
      <4> QED
        BY <2>4, <4>1, <4>2, <4>5, Zenon
    <3> HIDE DEF rest
    <3>3. Rest # <<>> /\ Head(Rest) = Backslash /\ Tail(Rest) = rest
      <4>1. /\ <<Backslash>> \o rest # <<>>
            /\ Head(<<Backslash>> \o rest) = Backslash
            /\ Tail(<<Backslash>> \o rest) = rest
        BY <1>b, <3>1, FrontOne
      <4> QED
        BY <3>2, <4>1, Zenon
    <3>4. /\ More /\ NextChar = Backslash /\ Tail(Rest) = After(index + 1)
          /\ index + 1 \in 0 .. Len(node_options)
      BY <3>3, ReadNext
    <3>5. After(index + 1) = rest /\ rest # <<>>
      BY <3>1, <3>3, <3>4, Zenon
    <3>6. /\ index + 1 < Len(node_options) /\ node_options[index + 1 + 1] = c
          /\ After(index + 1 + 1) = more
      <4> DEFINE k == index + 1
      <4>1. k \in 0 .. Len(node_options) /\ After(k) = rest /\ Len(node_options) \in Nat
        BY <3>4, <3>5, LenProperties DEF LexerTyped
      <4> HIDE DEF k
      <4>2. k # Len(node_options)
        BY <3>5, <4>1, AfterType
      <4>3. k < Len(node_options)
        BY <4>1, <4>2
      <4>4. Head(After(k)) = node_options[k + 1] /\ Tail(After(k)) = After(k + 1)
        BY <4>1, <4>3, AfterType
      <4> QED
        BY <3>1, <4>1, <4>3, <4>4, Zenon DEF k
    <3>7. index + 1 + 1 = index + 2 /\ ~(index + 2 > Len(node_options))
      BY <3>6, LenProperties DEF LexerTyped
    <3>8. /\ is_in_string' = is_in_string /\ index' = index + 2
          /\ Put(node_options[index + 2]) /\ TextStays
      BY <1>a, <3>4, <3>7, ReadsEscaped
    <3>9. Rest' = more /\ Put(c)
      BY <3>6, <3>7, <3>8, RestThen, Zenon DEF TextStays
    <3> QED
      BY <2>5, <3>8, <3>9, Zenon
  <2>7. CASE c \notin {Quote, Backslash}
    <3>1. Escaped(c) = <<c>>
      BY <2>7, Zenon DEF Escaped
    <3>2. Rest # <<>> /\ Head(Rest) = c /\ Tail(Rest) = more
      <4>1. <<c>> \o more # <<>> /\ Head(<<c>> \o more) = c /\ Tail(<<c>> \o more) = more
        BY <2>1, <2>3, FrontOne
      <4> QED
        BY <2>4, <3>1, <4>1, Zenon
    <3>3. /\ More /\ NextChar = c /\ Tail(Rest) = After(index + 1)
      BY <3>2, ReadNext
    <3>4. c # Quote /\ c # Backslash
      BY <2>7, Zenon
    <3>5. /\ is_in_string' = is_in_string /\ index' = index + 1
          /\ Put(NextChar) /\ TextStays
      BY <1>a, <3>3, <3>4, ReadsChar
    <3>6. Rest' = more /\ Put(c)
      BY <3>2, <3>3, <3>5, RestThen, Zenon DEF TextStays
    <3> QED
      BY <2>5, <3>5, <3>6, Zenon
  <2> QED
    BY <2>6, <2>7
<1> QED
  BY <1>1, <1>2

\* So a list stays on its way until it has arrived.
LEMMA ArrivingStep ==
  ASSUME LexerTyped, Arriving, WordsArrive,
         [LexNext]_lex_vars
  PROVE  Arriving' /\ WordsArrive'
<1>1. CASE UNCHANGED lex_vars
  <2>1. UNCHANGED <<line, node_options, index, is_in_string, will_start_new_arg, env_argv,
                    lex_errors, done>>
    BY <1>1, Zenon DEF lex_vars
  <2> QED
    BY <2>1 DEF Arriving, WordsArrive, Coming, Stage, BetweenWords, InBareWord, InQuotes, Due, Rest,
       After
<1>2. CASE LexNext
  <2>1. ~done /\ line' = line
    BY <1>2, Zenon DEF LexNext, ReadEscaped, ReadSpace, ReadQuote,
       ReadChar, EndOfText, More
  <2>2. CASE line = <<>>
    BY <2>1, <2>2, Zenon DEF Arriving, WordsArrive
  <2>3. CASE line # <<>>
    <3>1. lex_errors = {} /\ Coming
      BY <2>1, <2>3, Zenon DEF Arriving
    <3>2. PICK left, v, u : Stage(left, v, u)
      BY <3>1, Zenon DEF Coming
    <3>3. /\ left \in Seq(Nonempty) /\ v \in Seq(Chars)
          /\ u \in Seq(Chars) /\ u \in Written(left)
          /\ BetweenWords(left, u) \/ InBareWord(left, v, u) \/ InQuotes(left, v, u)
      BY <3>2, Zenon DEF Stage
    <3>4. GoesOn \/ Arrives
      <4>1. CASE BetweenWords(left, u)
        BY <1>2, <2>1, <3>1, <3>3, <4>1, FromBetween
      <4>2. CASE InBareWord(left, v, u)
        BY <1>2, <2>1, <3>1, <3>3, <4>2, FromWithin
      <4>3. CASE InQuotes(left, v, u)
        BY <1>2, <2>1, <3>1, <3>3, <4>3, FromQuotes
      <4> QED
        BY <3>3, <4>1, <4>2, <4>3, Zenon
    <3>5. CASE GoesOn
      <4>1. Coming' /\ ~done' /\ lex_errors' = {}
        BY <2>1, <3>1, <3>5, Zenon DEF GoesOn, TextStays
      <4> QED
        BY <4>1, Zenon DEF Arriving, WordsArrive
    <3>6. CASE Arrives
      <4>1. done' = TRUE /\ env_argv' = line' /\ lex_errors' = {}
        BY <3>6, Zenon DEF Arrives
      <4> QED
        BY <4>1, Zenon DEF Arriving, WordsArrive
    <3> QED
      BY <3>4, <3>5, <3>6, Zenon
  <2> QED
    BY <2>2, <2>3
<1> QED
  BY <1>1, <1>2

\* WordsArrive: every list of words that are not empty, written in any of the
\* ways that ParseNodeOptionsEnvVar documents, bare or quoted with escapes,
\* arrives as it was, without an error.
THEOREM WordsDoArrive ==
  LexSpec => []WordsArrive
<1> DEFINE IInv == LexerTyped /\ Arriving /\ WordsArrive
<1>1. LexInit => IInv
  BY LexerInit, ArrivingInit
<1>2. IInv /\ [LexNext]_lex_vars => IInv'
  BY LexerStep, ArrivingStep
<1>3. IInv => WordsArrive
  OBVIOUS
<1> QED
  BY <1>1, <1>2, <1>3, PTL DEF LexSpec

-----------------------------------------------------------------------------
(***************************************************************************)
(* CliOptions: an environment reads its options.                           *)
(***************************************************************************)
\* The places of a call that are past the mutex.
Held == {"isolate", "env", "read", "leave env", "leave isolate", "unlock"}

\* The pointers of the process are its own.
AtRest == per_isolate = process_isolate /\ per_env = isolate_env

\* The scope's first swap is made.
IsolateIn(e) ==
  per_isolate = isolate_options[e] /\ original_per_isolate[e] = process_isolate

\* The second one too.
EnvIn(e) ==
  /\ original_per_env[e] = isolate_env[isolate_options[e]]
  /\ per_env = [isolate_env EXCEPT ![isolate_options[e]] = env_options[e]]

\* What the pointers are while e is at each place.
Swapped(e) ==
  /\ place[e] \in {"isolate", "unlock"} => AtRest
  /\ place[e] \in {"env", "leave isolate"} => IsolateIn(e) /\ per_env = isolate_env
  /\ place[e] \in {"read", "leave env"} => IsolateIn(e) /\ EnvIn(e)

\* The mutex is held by the environment that is past it, and by no other.
Holder == \A e \in Environments : place[e] \in Held <=> cli_options_mutex = e

\* Of every environment.
Swaps == \A e \in Environments : Swapped(e)

\* What was read, and is not told yet.
AnswerSeen == \A e \in Environments : seen[e] \in {Nothing, Answer[e]}

\* The inductive invariant of the options binding.
CliInv == CliTypeOK /\ Holder /\ Swaps /\ Restored /\ AnswerSeen /\ AnswersExact

-----------------------------------------------------------------------------
\* Nothing and an environment's answer are what CliTypeOK asks of a result.
LEMMA AnswerReadings ==
  Nothing \in Readings /\ \A e \in Environments : Answer[e] \in Readings
BY ObjectsAssumption DEF Nothing, Answer, Readings

\* At the start the pointers are at rest and nobody is in a call.
LEMMA CliInvInit ==
  CliInit => CliInv
<1> SUFFICES ASSUME CliInit PROVE CliInv
  OBVIOUS
<1>1. CliTypeOK
  BY AnswerReadings, ObjectsAssumption DEF CliInit, CliTypeOK, Places, Calls
<1>2. Holder /\ Swaps /\ Restored
  BY ObjectsAssumption DEF CliInit, Holder, Held, Swaps, Swapped, Restored
<1>3. AnswerSeen /\ AnswersExact
  BY DEF CliInit, AnswerSeen, AnswersExact
<1> QED
  BY <1>1, <1>2, <1>3 DEF CliInv

\* Only the holder is past the mutex, so what holds of it is all of Swaps.
LEMMA OneHolder ==
  ASSUME CliTypeOK, Holder, NEW e \in Environments, place[e] \in Held
  PROVE  /\ cli_options_mutex = e /\ cli_options_mutex # None
         /\ \A d \in Environments \ {e} : place[d] \notin Held
BY ObjectsAssumption DEF Holder

\* A step of a thread outside the mutex changes none of what it protects.
LEMMA OutsideKeeps ==
  ASSUME CliInv, NEW e \in Environments,
         UNCHANGED <<pointers, cli_options_mutex, scope, seen, result>>,
         \/ UNCHANGED place
         \/ \E there \in {"idle", "lock"} :
              place[e] \notin Held /\ place' = [place EXCEPT ![e] = there]
  PROVE  (Holder /\ Swaps /\ Restored /\ AnswerSeen /\ AnswersExact)'
<1>1. \A d \in Environments : place'[d] = place[d] \/ (place[d] \notin Held /\ place'[d] \notin Held)
  BY DEF CliInv, CliTypeOK, Held
<1>2. Holder'
  BY <1>1 DEF CliInv, Holder
<1>3. Swaps'
  BY <1>1 DEF CliInv, Swaps, Swapped, Held, pointers, scope, AtRest, IsolateIn, EnvIn
<1>4. (Restored /\ AnswerSeen /\ AnswersExact)'
  BY DEF CliInv, Restored, AnswerSeen, AnswersExact, pointers
<1> QED
  BY <1>2, <1>3, <1>4

\* A step of the holder inside the mutex: the others are outside, before and after.
LEMMA InsideKeeps ==
  ASSUME CliInv, NEW e \in Environments, NEW there \in Held,
         place[e] \in Held, place' = [place EXCEPT ![e] = there],
         UNCHANGED <<cli_options_mutex, result>>,
         seen'[e] \in {Nothing, Answer[e]},
         \A d \in Environments \ {e} : seen'[d] = seen[d],
         Swapped(e)'
  PROVE  (Holder /\ Swaps /\ Restored /\ AnswerSeen /\ AnswersExact)'
<1>1. /\ cli_options_mutex = e /\ cli_options_mutex # None
      /\ \A d \in Environments \ {e} : place[d] \notin Held
  BY OneHolder DEF CliInv
<1>2. place'[e] = there /\ \A d \in Environments \ {e} : place'[d] = place[d]
  BY DEF CliInv, CliTypeOK
<1>3. Holder' /\ Restored'
  BY <1>1, <1>2 DEF Holder, Restored
<1>4. Swaps'
  <2> SUFFICES ASSUME NEW d \in Environments \ {e} PROVE Swapped(d)'
    BY DEF Swaps
  <2>1. place'[d] \notin Held
    BY <1>1, <1>2
  <2> QED
    BY <2>1 DEF Swapped, Held
<1>5. (AnswerSeen /\ AnswersExact)'
  BY DEF CliInv, AnswerSeen, AnswersExact
<1> QED
  BY <1>3, <1>4, <1>5

-----------------------------------------------------------------------------
\* No step of any thread breaks the invariant.
LEMMA CliInvNext ==
  CliInv /\ [CliNext]_cli_vars => CliInv'
<1> SUFFICES ASSUME CliInv, [CliNext]_cli_vars PROVE CliInv'
  OBVIOUS
<1> USE DEF CliInv
<1>p. /\ place \in [Environments -> Places] /\ per_env \in [IsolateOptions -> EnvOptions]
      /\ isolate_options \in [Environments -> IsolateOptions]
      /\ env_options \in [Environments -> EnvOptions]
      /\ isolate_env \in [IsolateOptions -> EnvOptions]
      /\ original_per_isolate \in [Environments -> IsolateOptions \cup {None}]
      /\ original_per_env \in [Environments -> EnvOptions \cup {None}]
      /\ seen \in [Environments -> Readings] /\ result \in [Environments -> Readings]
  BY ObjectsAssumption DEF CliTypeOK
<1>1. ASSUME NEW e \in Environments, Bootstrap(e) PROVE CliInv'
  <2>1. CliTypeOK'
    BY <1>1 DEF Bootstrap, CliTypeOK, pointers, scope
  <2> QED
    BY <1>1, <2>1, OutsideKeeps DEF Bootstrap
<1>2. ASSUME NEW e \in Environments, NEW f \in Calls, Enter(e, f) PROVE CliInv'
  <2>1. CliTypeOK'
    <3>1. calls[e] \in Nat /\ calls' = [calls EXCEPT ![e] = calls[e] + 1]
      BY <1>2 DEF Enter, CliTypeOK
    <3>2. calls' \in [Environments -> Nat] /\ call' \in [Environments -> Calls]
      BY <1>2, <3>1 DEF Enter, CliTypeOK
    <3>3. exception' \subseteq Environments
      BY <1>2 DEF Enter, CliTypeOK
    <3>4. place' \in [Environments -> Places]
      BY <1>2 DEF Enter, Goto, CliTypeOK, Places
    <3> QED
      BY <1>2, <3>2, <3>3, <3>4 DEF Enter, CliTypeOK, pointers, scope
  <2>2. place[e] \notin Held
    BY <1>2 DEF Enter, Held
  <2> QED
    BY <1>2, <2>1, <2>2, OutsideKeeps DEF Enter, Goto
<1>3. ASSUME NEW e \in Environments, Lock(e) PROVE CliInv'
  <2>1. CliTypeOK'
    BY <1>3 DEF Lock, Goto, CliTypeOK, Places, pointers, scope
  <2>2. /\ cli_options_mutex' = e /\ e # None
        /\ place'[e] \in {"isolate", "unlock"}
        /\ \A d \in Environments \ {e} : place'[d] = place[d] /\ place[d] \notin Held
    BY <1>3, <1>p, ObjectsAssumption DEF Lock, Goto, MutexFree, Holder
  <2>3. Holder' /\ Restored'
    BY <2>2, ObjectsAssumption DEF Holder, Held, Restored
  <2>4. Swaps'
    <3>1. Swapped(e)'
      BY <1>3, <2>2 DEF Lock, MutexFree, Restored, Swapped, AtRest, pointers
    <3> SUFFICES ASSUME NEW d \in Environments \ {e} PROVE Swapped(d)'
      BY <3>1 DEF Swaps
    <3> QED
      BY <2>2 DEF Swapped, Held
  <2>5. (AnswerSeen /\ AnswersExact)'
    BY <1>3 DEF Lock, AnswerSeen, AnswersExact
  <2> QED
    BY <2>1, <2>3, <2>4, <2>5
<1>4. ASSUME NEW e \in Environments, EnterIsolate(e) PROVE CliInv'
  <2>1. CliTypeOK'
    BY <1>4, <1>p DEF EnterIsolate, Goto, CliTypeOK, Places
  <2>2. Swapped(e)'
    BY <1>4, <1>p DEF EnterIsolate, Goto, Swaps, Swapped, AtRest, IsolateIn
  <2>3. place[e] \in Held /\ "env" \in Held /\ seen[e] \in {Nothing, Answer[e]}
    BY <1>4 DEF EnterIsolate, Held, AnswerSeen
  <2> QED
    BY <1>4, <2>1, <2>2, <2>3, InsideKeeps DEF EnterIsolate, Goto
<1>5. ASSUME NEW e \in Environments, EnterEnv(e) PROVE CliInv'
  <2>1. CliTypeOK'
    BY <1>5, <1>p DEF EnterEnv, Goto, CliTypeOK, Places
  <2>2. PICK there \in {"read", "leave env"} : place' = [place EXCEPT ![e] = there]
    BY <1>5 DEF EnterEnv, Goto
  <2>3. IsolateIn(e) /\ per_env = isolate_env
    BY <1>5 DEF EnterEnv, Swaps, Swapped
  <2>4. IsolateIn(e)' /\ EnvIn(e)'
    BY <1>5, <1>p, <2>3 DEF EnterEnv, IsolateIn, EnvIn
  <2>5. Swapped(e)'
    BY <1>p, <2>2, <2>4 DEF Swapped
  <2>6. place[e] \in Held /\ there \in Held /\ seen[e] \in {Nothing, Answer[e]}
    BY <1>5 DEF EnterEnv, Held, AnswerSeen
  <2> QED
    BY <1>5, <2>1, <2>2, <2>5, <2>6, InsideKeeps DEF EnterEnv
<1>6. ASSUME NEW e \in Environments, Read(e) PROVE CliInv'
  <2>1. IsolateIn(e) /\ EnvIn(e)
    BY <1>6 DEF Read, Swaps, Swapped
  <2>2. Reading(e) = Answer[e]
    BY <1>p, <2>1 DEF IsolateIn, EnvIn, Reading, CurrentEnv, Answer
  <2>3. seen' = seen \/ seen' = [seen EXCEPT ![e] = Answer[e]]
    BY <1>6, <2>2 DEF Read
  <2>4. CliTypeOK'
    BY <1>6, <1>p, <2>3, AnswerReadings DEF Read, Goto, CliTypeOK, Places, pointers, scope
  <2>5. Swapped(e)'
    BY <1>6, <1>p, <2>1 DEF Read, Goto, Swapped, IsolateIn, EnvIn, pointers, scope
  <2>6. /\ seen'[e] \in {Nothing, Answer[e]}
        /\ \A d \in Environments \ {e} : seen'[d] = seen[d]
    BY <1>p, <2>3 DEF AnswerSeen
  <2>7. place[e] \in Held /\ "leave env" \in Held
    BY <1>6 DEF Read, Held
  <2> QED
    BY <1>6, <2>4, <2>5, <2>6, <2>7, InsideKeeps DEF Read, Goto
<1>7. ASSUME NEW e \in Environments, LeaveEnv(e) PROVE CliInv'
  <2>1. IsolateIn(e) /\ EnvIn(e)
    BY <1>7 DEF LeaveEnv, Swaps, Swapped
  <2>2. per_env' = isolate_env
    BY <1>7, <1>p, <2>1 DEF LeaveEnv, EnvRestored, IsolateIn, EnvIn
  <2>3. CliTypeOK'
    BY <1>7, <1>p, <2>2 DEF LeaveEnv, Goto, CliTypeOK, Places, scope
  <2>4. Swapped(e)'
    BY <1>7, <1>p, <2>1, <2>2 DEF LeaveEnv, Goto, Swapped, IsolateIn, scope
  <2>5. place[e] \in Held /\ "leave isolate" \in Held /\ seen[e] \in {Nothing, Answer[e]}
    BY <1>7 DEF LeaveEnv, Held, AnswerSeen
  <2> QED
    BY <1>7, <2>3, <2>4, <2>5, InsideKeeps DEF LeaveEnv, Goto
<1>8. ASSUME NEW e \in Environments, LeaveIsolate(e) PROVE CliInv'
  <2>1. IsolateIn(e) /\ per_env = isolate_env
    BY <1>8 DEF LeaveIsolate, Swaps, Swapped
  <2>2. per_isolate' = process_isolate /\ per_env' = isolate_env
    BY <1>8, <2>1 DEF LeaveIsolate, IsolateIn
  <2>3. CliTypeOK'
    BY <1>8, <1>p, <2>2, ObjectsAssumption DEF LeaveIsolate, Goto, CliTypeOK, Places
  <2>4. Swapped(e)'
    BY <1>8, <1>p, <2>2 DEF LeaveIsolate, Goto, Swapped, AtRest
  <2>5. place[e] \in Held /\ "unlock" \in Held /\ seen[e] \in {Nothing, Answer[e]}
    BY <1>8 DEF LeaveIsolate, Held, AnswerSeen
  <2> QED
    BY <1>8, <2>3, <2>4, <2>5, InsideKeeps DEF LeaveIsolate, Goto
<1>9. ASSUME NEW e \in Environments, Return(e) PROVE CliInv'
  <2>1. seen[e] \in {Nothing, Answer[e]} /\ place[e] \in Held /\ AtRest
    BY <1>9 DEF Return, AnswerSeen, Held, Swaps, Swapped
  <2>2. PICK reply \in {Nothing, Answer[e]} : result' = [result EXCEPT ![e] = reply]
    BY <1>9, <2>1 DEF Return
  <2>p. Nothing \in Readings /\ Answer[e] \in Readings
    BY AnswerReadings
  <2>3. CliTypeOK'
    <3>1. result' \in [Environments -> Readings] /\ seen' \in [Environments -> Readings]
      BY <1>9, <1>p, <2>2, <2>p DEF Return
    <3>2. place' \in [Environments -> Places]
      BY <1>9, <1>p DEF Return, Goto, Places
    <3> QED
      BY <1>9, <3>1, <3>2 DEF Return, Released, CliTypeOK, pointers, scope
  <2>4. (AnswerSeen /\ AnswersExact)'
    BY <1>9, <1>p, <2>2 DEF Return, AnswerSeen, AnswersExact
  <2>5. /\ \A d \in Environments : place'[d] \notin Held
        /\ cli_options_mutex' = None
    BY <1>9, <1>p, <2>1, OneHolder DEF Return, Released, Goto, Held
  <2>6. (Holder /\ Swaps /\ Restored)'
    BY <1>9, <2>1, <2>5, ObjectsAssumption
       DEF Return, Holder, Swaps, Swapped, Held, Restored, AtRest, pointers
  <2> QED
    BY <2>3, <2>4, <2>6
<1>10. CASE UNCHANGED cli_vars
  <2>1. UNCHANGED <<pointers, cli_options_mutex, place, call, calls, has_run_bootstrapping_code, exception, scope, seen, result>>
    BY <1>10 DEF cli_vars
  <2> QED
    BY <2>1 DEF pointers, scope, CliTypeOK, Holder, Swaps, Swapped, AtRest, IsolateIn, EnvIn,
                Restored, AnswerSeen, AnswersExact
<1> QED
  BY <1>1, <1>2, <1>3, <1>4, <1>5, <1>6, <1>7, <1>8, <1>9, <1>10 DEF CliNext, Inside

\* Every reachable state satisfies the invariant.
THEOREM CliInvariance ==
  CliSpec => []CliInv
<1> QED
  BY CliInvInit, CliInvNext, PTL DEF CliSpec

\* The pointers always point to options, and nobody but an environment holds
\* the mutex.
THEOREM CliTypes ==
  CliSpec => []CliTypeOK
<1>1. CliInv => CliTypeOK
  BY DEF CliInv
<1> QED
  BY <1>1, CliInvariance, PTL

\* Whenever the mutex is free, the process's options and every isolate's are
\* what they were before any call, however many calls were made and however
\* they ended.
THEOREM SwapsUndone ==
  CliSpec => []Restored
<1>1. CliInv => Restored
  BY DEF CliInv
<1> QED
  BY <1>1, CliInvariance, PTL

\* Every answer is of the caller's own objects, and for the one option that is
\* read elsewhere of its isolate's at rest, however the calls interleave.
THEOREM AnswersAlwaysExact ==
  CliSpec => []AnswersExact
<1>1. CliInv => AnswersExact
  BY DEF CliInv
<1> QED
  BY <1>1, CliInvariance, PTL

-----------------------------------------------------------------------------
\* A call that starts is a question, its return is the answer or a refusal, and
\* every step between is invisible to the environments.
LEMMA StepMaps ==
  CliInv /\ [CliNext]_cli_vars => [Service!Next]_<<{e \in Environments : place[e] # "idle"}, result>>
<1> SUFFICES ASSUME CliInv, [CliNext]_cli_vars
             PROVE  Service!Next \/ UNCHANGED <<{e \in Environments : place[e] # "idle"}, result>>
  OBVIOUS
<1>p. place \in [Environments -> Places] /\ result \in [Environments -> Readings]
  BY DEF CliInv, CliTypeOK
\* A step that neither leaves nor enters "idle" is a stutter.
<1>s. ASSUME NEW e \in Environments, NEW there \in Places \ {"idle"},
             place[e] # "idle", place' = [place EXCEPT ![e] = there], UNCHANGED result
      PROVE  UNCHANGED <<{d \in Environments : place[d] # "idle"}, result>>
  BY <1>p, <1>s
<1>1. ASSUME NEW e \in Environments, NEW f \in Calls, Enter(e, f) PROVE Service!Ask(e)
  BY <1>p, <1>1 DEF Enter, Goto, Service!Ask
<1>2. ASSUME NEW e \in Environments, Return(e) PROVE Service!Tell(e)
  <2>1. PICK reply \in {Answer[e], Nothing} : result' = [result EXCEPT ![e] = reply]
    BY <1>2 DEF CliInv, AnswerSeen, Return
  <2>2. place[e] = "unlock" /\ place' = [place EXCEPT ![e] = "idle"]
    BY <1>2 DEF Return, Goto
  <2>3. {d \in Environments : place'[d] # "idle"} = {d \in Environments : place[d] # "idle"} \ {e}
    BY <1>p, <2>2
  <2> QED
    BY <2>1, <2>2, <2>3 DEF Service!Tell
<1>3. ASSUME NEW e \in Environments,
             Lock(e) \/ EnterIsolate(e) \/ EnterEnv(e) \/ Read(e) \/ LeaveEnv(e) \/ LeaveIsolate(e)
      PROVE  UNCHANGED <<{d \in Environments : place[d] # "idle"}, result>>
  <2>1. /\ place[e] # "idle" /\ UNCHANGED result
        /\ \E there \in Places \ {"idle"} : place' = [place EXCEPT ![e] = there]
    BY <1>3 DEF Lock, EnterIsolate, EnterEnv, Read, LeaveEnv, LeaveIsolate, Goto, Places
  <2> QED
    BY <1>s, <2>1
<1>4. ASSUME NEW e \in Environments, Bootstrap(e)
      PROVE  UNCHANGED <<{d \in Environments : place[d] # "idle"}, result>>
  BY <1>4 DEF Bootstrap
<1>5. CASE UNCHANGED cli_vars
  BY <1>5 DEF cli_vars
<1> QED
  BY <1>1, <1>2, <1>3, <1>4, <1>5 DEF CliNext, Inside, Service!Next

\* The binding implements the promise of OptionsService: a call is answered as
\* if in one step, and nobody else's calls change the answer.
THEOREM Implements ==
  CliSpec => ImplementsService
<1>1. CliInit => Service!Init
  BY DEF CliInit, Service!Init
<1> QED
  BY <1>1, StepMaps, CliInvariance, PTL DEF CliSpec, ImplementsService, Service!Spec
=============================================================================
