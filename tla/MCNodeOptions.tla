--------------------------- MODULE MCNodeOptions ---------------------------
(* Small instances of NodeOptions for TLC: every name of the table alone,  *)
(* and lists of words that have to do with each other.                     *)
EXTENDS NodeOptions

Start(vars_, env, cmd) == [vars |-> vars_, env |-> env, cmd |-> cmd]
Eq(name, text) == Word(name, FALSE, TRUE, text)
No(name) == Word(name, TRUE, FALSE, <<>>)
File == Arg(<<"file">>)

AllNames == OptionNames \cup {a.from : a \in aliases_} \cup {"--unknown"}
Typed == {n \in AllNames : n \notin {"[has_env_file_string]", "[has_eval_string]", "[ssl_openssl_cert_store]"}}

\* Every name in every form, in NODE_OPTIONS or on the command line.
Singles ==
  LET lists(n) == {<<Flag(n)>>, <<No(n)>>, <<Eq(n, <<"8000">>)>>, <<Eq(n, <<>>)>>, <<Flag(n), File>>}
  IN UNION {{Start({}, list, <<>>), Start({}, <<>>, list)} : list \in UNION {lists(n) : n \in Typed}}

Groups ==
  {{Flag("--inspect-brk"), Flag("--inspect-wait"), No("--inspect"), No("--inspect-wait"),
    Eq("--inspect", <<"80">>), Eq("--inspect", <<"h", ":", "9229">>),
    Eq("--inspect-brk", <<"[", ":", ":", "1", "]">>), Eq("--inspect-port", <<":", "0">>)},
   {Eq("--inspect-publish-uid", <<"http">>), Eq("--inspect-publish-uid", <<"stderr", ",", "http">>),
    Eq("--inspect-publish-uid", <<"stderr", ",">>), Flag("--debug-brk"), File},
   {Flag("--watch"), No("--watch"), Eq("--watch-path", <<"src">>), Flag("--test"),
    Eq("--test-isolation", <<"none">>), Flag("--test-force-exit"), Arg(<<>>), File},
   {Flag("--check"), Flag("-e"), Flag("-p"), Flag("-pe"), Flag("--interactive"), Arg(<<>>), File},
   {Flag("--use-openssl-ca"), Flag("--use-bundled-ca"), No("--use-bundled-ca"),
    Flag("--tls-min-v1.3"), Flag("--tls-max-v1.2"), Eq("--use-largepages", <<"maybe">>)},
   {Eq("--secure-heap", <<"16">>), Eq("--secure-heap", <<"64">>), Eq("--secure-heap-min", <<"6">>),
    Eq("--secure-heap", <<"4">>), Eq("--secure-heap-min", <<"64">>), Eq("--secure-heap-min", <<"-4">>)},
   {Flag("--cpu-prof"), No("--cpu-prof"), Eq("--cpu-prof-dir", <<"c">>), Eq("--cpu-prof-dir", <<"d">>),
    Eq("--diagnostic-dir", <<"e">>), Eq("--diagnostic-dir", <<"f">>),
    Eq("--heap-prof-interval", <<"-1">>), Flag("--heap-prof"), Eq("--heap-prof-name", <<"n">>)},
   {Flag("--experimental-shadow-realm"), No("--harmony-shadow-realm"), Flag("--node-memory-debug"),
    Flag("--"), Eq("--heapsnapshot-near-heap-limit", <<"-1">>), Eq("--input-type", <<"module">>),
    Eq("--unhandled-rejections", <<"never">>), Flag("--experimental-transform-types")}}

Lists(words, n) == [1 .. n -> words]

\* Up to three words in all, some of them in NODE_OPTIONS.
Triples ==
  UNION {UNION {{Start({}, env, cmd) : env \in Lists(words, n[1]), cmd \in Lists(words, n[2])} :
                  n \in {<<0, 1>>, <<0, 2>>, <<0, 3>>, <<1, 1>>, <<1, 2>>, <<2, 1>>}} :
           words \in Groups}

Variables ==
  {Start(v, <<>>, <<No("--pending-deprecation")>>) :
     v \in SUBSET {"--pending-deprecation", "--preserve-symlinks", "--redirect-warnings"}}

MCStarts == Singles \cup Triples \cup Variables
=============================================================================
