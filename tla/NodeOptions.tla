---------------------------- MODULE NodeOptions ----------------------------
(***************************************************************************)
(* How the options of a process come to be: HandleEnvOptions, the parser   *)
(* over the words of NODE_OPTIONS, the parser over the command line, and   *)
(* CheckOptions after each of the two, all on the one PerProcessOptions.   *)
(*                                                                         *)
(* The parser's loop is in a file outside the repository; it is modelled   *)
(* from the declarations and comments in node_options.h.                   *)
(***************************************************************************)
EXTENDS OptionTable, FiniteSets, FiniteSetsExt

CONSTANTS
  Starts,   \* [vars, env, cmd]: the variables that are set to "1" or to a
            \* name, the words of NODE_OPTIONS and of the command line
  IntMax,   \* the greatest int, lowered for the checks
  TwoTo64   \* how many values a uint64_t has, lowered for the checks

\* Options that no word can name: the parser takes words with a dash in front.
InternalNames == {"[has_env_file_string]", "[has_eval_string]", "[ssl_openssl_cert_store]"}

\* A name, or a piece of a text.
Pieces == STRING

\* A text follows an equals sign, or is an argument.
StartWords ==
  {w \in [name : Pieces \ InternalNames, neg : BOOLEAN, eq : BOOLEAN, text : Seq(Pieces)] :
     w.eq \/ w.name = "argument" \/ w.text = <<>>}

ASSUME StartsAssumption ==
  /\ IntMax \in Nat \ {0, 1} /\ TwoTo64 \in Nat \ {0}
  /\ Starts \subseteq [vars : SUBSET Pieces, env : Seq(StartWords), cmd : Seq(StartWords)]

\* The names of the table and the texts that are in the code are pieces.
ASSUME PiecesAssumption ==
  /\ OptionNames \cup {"argument", "file", "v8,node,node.async_hooks"} \subseteq Pieces
  /\ \A alias \in aliases_ : \A i \in DOMAIN alias.to : alias.to[i].name \in Pieces

VARIABLES
  start,    \* the member of Starts that this process got
  phase,    \* "variables", "env", "cmd", "started" or "failed"
  pc,       \* in the parser: "loop", "alias", "apply" or "over"; else "idle"
  args,     \* words that the parser has not popped
  cur,      \* the word that it works on
  written,  \* the fields that were written, and their values
  v8_args,  \* options passed on to V8: their names, and whether negated
  errors

vars == <<start, phase, pc, args, cur, written, v8_args, errors>>

Idle == Arg(<<>>)

\* Functions given value by value, and f with the values of g where f has none:
\* as in TLC's module, whose own definitions the provers do not have.
Tlc == INSTANCE TLC
d :> e == [x \in {d} |-> e]
f @@ g == [x \in DOMAIN f \cup DOMAIN g |-> IF x \in DOMAIN f THEN f[x] ELSE g[x]]

-----------------------------------------------------------------------------
\* The initial values that are not false, 0 or empty.
DebugDefaults ==
  "--inspect-publish-uid" :> <<"stderr", ",", "http">>
    @@ "--inspect-port" :> [host |-> <<"127.0.0.1">>, port |-> 9229]
    @@ "allow_attaching_debugger" :> TRUE @@ "inspect_publish_uid" :> {}

EnvironmentDefaults ==
  [name \in {"--experimental-detect-module", "--experimental-require-module",
             "--network-family-autoselection", "--experimental-websocket",
             "--experimental-sqlite", "--experimental-global-navigator",
             "--experimental-repl-await", "--deprecation", "--force-async-hooks-checks",
             "--addons", "--global-search-paths", "--warnings",
             "--extra-info-on-fatal-exception", "--experimental-strip-types"} |-> TRUE]
    @@ "--test-isolation" :> <<"process">>
    @@ "--network-family-autoselection-attempt-timeout" :> 250
    @@ "--max-http-header-size" :> 16384
    @@ "--cpu-prof-interval" :> 1000 @@ "--heap-prof-interval" :> 524288

IsolateDefaults ==
  "--stack-trace-limit" :> 10 @@ "--report-signal" :> <<"SIGUSR2">>

ProcessDefaults ==
  "--node-snapshot" :> TRUE @@ "--v8-pool-size" :> 4 @@ "--secure-heap-min" :> 2
    @@ "--use-largepages" :> <<"off">> @@ "--tls-cipher-list" :> <<"DEFAULT_CIPHER_LIST_CORE">>
    @@ "--trace-event-file-pattern" :> <<"node_trace.${rotation}.log">>

Defaults == DebugDefaults @@ EnvironmentDefaults @@ IsolateDefaults @@ ProcessDefaults

\* --debug and --debug-brk have one field, every other option its own.
Field(name) == IF name = "--debug-brk" THEN "--debug" ELSE name

\* What a field is before anything is written to it.
InitialValue(field) ==
  IF field \in DOMAIN Defaults THEN Defaults[field]
  ELSE CASE OptionInfo[field].type = "kBoolean" -> FALSE
         [] OptionInfo[field].type \in {"kInteger", "kUInteger"} -> 0
         [] OTHER -> <<>>

Lookup(w, field) == IF field \in DOMAIN w THEN w[field] ELSE InitialValue(field)

\* Every number that the texts of Starts are about.
Numbers == -9 .. 9 \cup {16, 32, 64, 80, 1000, 1023, 1024, 8000, 9229, 65535, 65536}

\* The number that a text starts with, 0 if it starts with none.
Number(text) ==
  LET found == {n \in Numbers : text # <<>> /\ Tlc!ToString(n) = text[1]}
  IN IF found = {} THEN 0 ELSE CHOOSE n \in found : TRUE

\* The pieces of a text between separators.
Entries(text, separator) ==
  LET cuts == {0, Len(text) + 1} \cup {i \in DOMAIN text : text[i] = separator}
  IN IF text = <<>> THEN {}
     ELSE {SubSeq(text, i + 1, Min({j \in cuts : j > i}) - 1) : i \in cuts \ {Len(text) + 1}}

-----------------------------------------------------------------------------
RemoveBrackets(host) ==
  IF host # <<>> /\ host[1] = "[" /\ host[Len(host)] = "]"
  THEN SubSeq(host, 2, Len(host) - 1) ELSE host

\* The least port that is not privileged, and the greatest.
LeastPort == 1024
MaxPort == 65535

\* Mutant: low ports are taken.
AnyPort(text) ==
  [port |-> IF Number(text) \in 0 .. MaxPort THEN Number(text) ELSE 0,
   error |-> Number(text) > MaxPort]

\* A port that is no number is 0, and nothing is said of it; one that is out
\* of range is 0 too, with an error.
ParseAndValidatePort(text) ==
  [port |-> IF Number(text) \in 0 .. MaxPort THEN Number(text) ELSE 0,
   error |-> Number(text) > MaxPort \/ Number(text) \in 1 .. LeastPort - 1]

AllDigits(text) == text \in {<<>>, <<"0">>} \/ (Len(text) = 1 /\ Number(text) > 0)

SplitHostPort(arg) ==
  LET colons == {i \in DOMAIN arg : arg[i] = ":"}
      colon == Max(colons)
      bare == RemoveBrackets(arg)
      at(host, port) == [host |-> host] @@ ParseAndValidatePort(port)
      alone(host) == [host |-> host, port |-> 9229, error |-> FALSE]
  IN CASE bare # arg -> alone(bare)
       [] bare = arg /\ colons # {} ->
            at(RemoveBrackets(SubSeq(arg, 1, colon - 1)), SubSeq(arg, colon + 1, Len(arg)))
       [] bare = arg /\ colons = {} /\ AllDigits(arg) -> at(<<>>, arg)
       [] OTHER -> alone(arg)

\* HostPort::Update.
Update(old, new) ==
  [host |-> IF new.host # <<>> THEN new.host ELSE old.host, port |-> new.port]

-----------------------------------------------------------------------------
\* The messages whose condition holds.
Raised(messages) == {m[1] : m \in {n \in messages : n[2]}}

\* Mutant: destinations of an earlier pass stay.
UidAdded(w) ==
  Lookup(w, "inspect_publish_uid")
    \cup {e[1] : e \in Entries(Lookup(w, "--inspect-publish-uid"), ",") \cap {<<"stderr">>, <<"http">>}}

\* inspect_publish_uid, the set of its members that are true.
PublishUid(w) ==
  {e[1] : e \in Entries(Lookup(w, "--inspect-publish-uid"), ",") \cap {<<"stderr">>, <<"http">>}}

DebugErrors(w) ==
  Raised({<<"--debug", Lookup(w, "--debug")>>,
          <<"--inspect-publish-uid",
            ~(Entries(Lookup(w, "--inspect-publish-uid"), ",") \subseteq {<<"stderr">>, <<"http">>})>>})

PowerOfTwo(n) == \E k \in 0 .. 30 : n = 2 ^ k

\* Mutant: the minimum keeps its value when the heap is smaller.
HeapMinKept(w) == Max({2, Lookup(w, "--secure-heap-min")})

\* secure_heap_min within its bounds.
HeapMin(w) ==
  Max({2, Min({Lookup(w, "--secure-heap"), Lookup(w, "--secure-heap-min"), IntMax})})

ProcessErrors(w) ==
  LET heap == Lookup(w, "--secure-heap") IN
  Raised({<<"--use-openssl-ca", Lookup(w, "--use-openssl-ca") /\ Lookup(w, "--use-bundled-ca")>>,
          <<"--secure-heap", heap >= 2 /\ ~PowerOfTwo(heap)>>,
          <<"--secure-heap-min", heap >= 2 /\ ~PowerOfTwo(HeapMin(w))>>,
          <<"--use-largepages",
            Lookup(w, "--use-largepages") \notin {<<"off">>, <<"on">>, <<"silent">>}>>})

\* Options whose text is one of a few words, or empty.
EnvironmentWords ==
  "--input-type" :> {"commonjs", "module", "commonjs-typescript", "module-typescript"}
    @@ "--unhandled-rejections" :> {"warn-with-error-code", "throw", "strict", "warn", "none"}
    @@ "--trace-require-module" :> {"all", "no-node-modules"}

WordErrors(w) ==
  {name \in DOMAIN EnvironmentWords :
     Lookup(w, name) # <<>> /\ Lookup(w, name) \notin {<<word>> : word \in EnvironmentWords[name]}}

\* What keeps --test from being used.
TestErrors(w) ==
  Raised({<<"--test-isolation", Lookup(w, "--test-isolation") \notin {<<"none">>, <<"process">>}>>,
          <<"--check", Lookup(w, "--check")>>,
          <<"--eval", Lookup(w, "[has_eval_string]")>>,
          <<"--interactive", Lookup(w, "--interactive")>>,
          <<"--watch-path", Lookup(w, "--watch-path") # <<>>>>})

\* What keeps --watch from being used. The argument after the program's name
\* is read though there may be none, and then it may look empty or not.
WatchErrors(w, nofile) ==
  Raised({<<"--check", Lookup(w, "--check")>>,
          <<"--eval", Lookup(w, "[has_eval_string]")>>,
          <<"--interactive", Lookup(w, "--interactive")>>,
          <<"--test-force-exit", Lookup(w, "--test-force-exit")>>,
          <<"--watch", ~Lookup(w, "--test") /\ nofile>>})

\* Mutant: --watch leaves the debugger as it is.
DebuggerForTests(w) ==
  IF Lookup(w, "--test") THEN Lookup(w, "--test-isolation") = <<"none">>
  ELSE Lookup(w, "allow_attaching_debugger")

\* allow_attaching_debugger after the tests' and the watcher's lines.
Debugger(w) ==
  CASE Lookup(w, "--watch") -> FALSE
    [] ~Lookup(w, "--watch") /\ Lookup(w, "--test") -> Lookup(w, "--test-isolation") = <<"none">>
    [] OTHER -> Lookup(w, "allow_attaching_debugger")

\* The options of each profile.
CpuProf ==
  [on |-> "--cpu-prof", name |-> "--cpu-prof-name", dir |-> "--cpu-prof-dir",
   interval |-> "--cpu-prof-interval"]
HeapProf ==
  [on |-> "--heap-prof", name |-> "--heap-prof-name", dir |-> "--heap-prof-dir",
   interval |-> "--heap-prof-interval"]

\* Mutant: --diagnostic-dir comes before the profile's own option.
DiagnosticDirFirst(w, profile) ==
  IF Lookup(w, profile.on) /\ Lookup(w, "--diagnostic-dir") # <<>>
  THEN Lookup(w, "--diagnostic-dir") ELSE Lookup(w, profile.dir)

\* Where a profile goes: where its own option says, or to --diagnostic-dir.
ProfileDir(w, profile) ==
  IF Lookup(w, profile.on) /\ Lookup(w, profile.dir) = <<>>
  THEN Lookup(w, "--diagnostic-dir") ELSE Lookup(w, profile.dir)

ProfileErrors(w, profile) ==
  IF Lookup(w, profile.on) THEN {}
  ELSE {name \in {profile.name, profile.dir, profile.interval} :
          Lookup(w, name) # InitialValue(name)}

EnvironmentErrors(w, nofile) ==
  UNION {WordErrors(w),
         Raised({<<"--check", Lookup(w, "--check") /\ Lookup(w, "[has_eval_string]")>>,
                 <<"--tls-min-v1.3", Lookup(w, "--tls-min-v1.3") /\ Lookup(w, "--tls-max-v1.2")>>,
                 <<"--heapsnapshot-near-heap-limit", Lookup(w, "--heapsnapshot-near-heap-limit") < 0>>}),
         IF Lookup(w, "--test") THEN TestErrors(w) ELSE {},
         IF Lookup(w, "--watch") THEN WatchErrors(w, nofile) ELSE {},
         ProfileErrors(w, CpuProf), ProfileErrors(w, HeapProf), DebugErrors(w)}

\* The fields that CheckOptions writes, and the others.
Settled(w) ==
  {"inspect_publish_uid", "allow_attaching_debugger", CpuProf.dir, HeapProf.dir}
    \cup (IF Lookup(w, "--secure-heap") >= 2 THEN {"--secure-heap-min"} ELSE {})

Checked(w) ==
  [field \in DOMAIN w \cup Settled(w) |->
     CASE field = "inspect_publish_uid" -> PublishUid(w)
       [] field = "allow_attaching_debugger" -> Debugger(w)
       [] field = CpuProf.dir -> ProfileDir(w, CpuProf)
       [] field = HeapProf.dir -> ProfileDir(w, HeapProf)
       [] field = "--secure-heap-min" /\ field \in Settled(w) -> HeapMin(w)
       [] field \notin Settled(w) -> w[field]]

-----------------------------------------------------------------------------
\* Mutant: options that NODE_OPTIONS may not have are in the map.
EveryInputType ==
  [name \in {o.name : o \in {p \in options_ : p.type \notin {"kNoOp", "kV8Option"}}} |->
     IF OptionInfo[name].type = "kBoolean" THEN "boolean" ELSE "string"]

\* The map of getEnvOptionsInputType, from which the configuration file's
\* schema is made: the type of every option that NODE_OPTIONS may have.
InputType ==
  [name \in {o.name : o \in {p \in options_ : p.allowed /\ p.type \notin {"kNoOp", "kV8Option"}}} |->
     CASE OptionInfo[name].type = "kBoolean" -> "boolean"
       [] OptionInfo[name].type \in {"kInteger", "kUInteger", "kHostPort"} -> "number"
       [] OptionInfo[name].type = "kString" -> "string"
       [] OTHER -> "array"]

-----------------------------------------------------------------------------
\* The variables of the environment: start.vars has those equal to "1", and
\* NODE_REDIRECT_WARNINGS if it names a file.
HandleEnvOptions ==
  /\ phase = "variables"
  /\ written' =
       [name \in {"--pending-deprecation", "--preserve-symlinks", "--preserve-symlinks-main"} |->
          name \in start.vars]
         @@ "--redirect-warnings" :>
              (IF "--redirect-warnings" \in start.vars THEN <<"file">> ELSE <<>>)
  /\ \/ phase' = "env" /\ args' = start.env
     \/ start.env = <<>> /\ phase' = "cmd" /\ args' = start.cmd
  /\ pc' = "loop"
  /\ UNCHANGED <<start, cur, v8_args, errors>>

\* The parser's loop. An argument ends it, and so does "--", which is an error
\* in NODE_OPTIONS.
PopFirst ==
  /\ pc = "loop" /\ args # <<>> /\ errors = {}
  /\ Head(args).name # "argument"
  /\ cur' = Head(args) /\ args' = Tail(args)
  /\ IF Head(args).name = "--"
     THEN /\ pc' = "over"
          /\ errors' = IF phase = "env" THEN {"not allowed"} ELSE {}
     ELSE pc' = "alias" /\ UNCHANGED errors
  /\ UNCHANGED <<start, phase, written, v8_args>>

EndOfOptions ==
  /\ pc = "loop"
  /\ (args # <<>> /\ errors = {}) => Head(args).name = "argument"
  /\ pc' = "over"
  /\ UNCHANGED <<start, phase, args, cur, written, v8_args, errors>>

\* The forms in which an alias is looked up.
AliasForms ==
  {"name"} \cup (IF cur.eq THEN {"="} ELSE {})
    \cup (IF args # <<>> /\ Head(args).name = "argument" /\ Head(args).text # <<>> THEN {"<arg>"} ELSE {})

\* The loop over the aliases ends with one whose first word is its own name.
AfterExpansion(name, alias) == IF alias.to[1].name = name THEN "apply" ELSE "alias"

ExpandAlias ==
  /\ pc = "alias"
  /\ LET aliases == {a \in aliases_ : a.from = cur.name /\ a.form \in AliasForms} IN
     \/ /\ aliases = {} /\ pc' = "apply"
        /\ UNCHANGED <<cur, args>>
     \/ \E alias \in aliases :
          /\ cur' = [cur EXCEPT !.name = alias.to[1].name]
          /\ args' = Tail(alias.to) \o args
          /\ pc' = AfterExpansion(cur.name, alias)
  /\ UNCHANGED <<start, phase, written, v8_args, errors>>

\* Mutant: NODE_OPTIONS may have every option that is known.
NotKnown(name) == phase = "env" /\ name \notin OptionNames

\* An option that NODE_OPTIONS may not have, by its table entry.
NotAllowed(name) ==
  phase = "env" /\ name \notin {o.name : o \in {p \in options_ : p.allowed}}

Reject(message) ==
  /\ errors' = errors \cup {message} /\ pc' = "over"
  /\ UNCHANGED <<args, written, v8_args>>

HasField(name) == OptionInfo[name].type \notin {"kNoOp", "kV8Option"}
TakesValue(name) == HasField(name) /\ OptionInfo[name].type # "kBoolean"

ImpliedBy(word) == {i \in implications_ : i.from = word.name /\ i.neg = word.neg}

\* The fields that a word writes, its own and those of other options.
OwnFields(word) == IF word.name \in OptionNames /\ HasField(word.name) THEN {Field(word.name)} ELSE {}
ImpliedFields(word) ==
  {i.to : i \in {j \in ImpliedBy(word) : OptionInfo[j.to].type = "kBoolean"}}

\* What it writes to its own field, its value being text.
OwnValue(word, text) ==
  LET type == OptionInfo[word.name].type
      old == Lookup(written, Field(word.name))
  IN CASE type = "kBoolean" -> ~word.neg
       [] type = "kInteger" -> Number(text)
       [] type = "kUInteger" -> Number(text) % TwoTo64
       [] type = "kString" -> text
       [] type = "kStringList" -> Append(old, text)
       [] type = "kHostPort" -> Update(old, SplitHostPort(text))

ImpliedValue(word, field) == (CHOOSE i \in ImpliedBy(word) : i.to = field).value

Writes(word, text) ==
  [field \in DOMAIN written \cup OwnFields(word) \cup ImpliedFields(word) |->
     CASE field \in OwnFields(word) -> OwnValue(word, text)
       [] field \in ImpliedFields(word) \ OwnFields(word) -> ImpliedValue(word, field)
       [] OTHER -> written[field]]

\* The names that a word passes on to V8.
Passes(word) ==
  {<<i.to, FALSE>> : i \in {j \in ImpliedBy(word) : OptionInfo[j.to].type = "kV8Option"}}
    \cup (IF word.name \notin OptionNames \/ word.name = "--stack-trace-limit"
             \/ OptionInfo[word.name].type = "kV8Option"
          THEN {<<word.name, word.neg>>} ELSE {})

Accept(text, rest) ==
  /\ written' = Writes(cur, text)
  /\ v8_args' = v8_args \cup Passes(cur)
  /\ args' = rest
  /\ errors' = IF cur.name = "--inspect-port" /\ SplitHostPort(text).error
               THEN errors \cup {"port"} ELSE errors
  /\ pc' = "loop"

\* The value of the option is what follows the equals sign, or the next word.
Value == IF cur.eq THEN cur.text ELSE Head(args).text
HasValue == IF cur.eq THEN cur.text # <<>> ELSE args # <<>> /\ Head(args).name = "argument"

RefuseInEnv == NotAllowed(cur.name) /\ Reject("not allowed")

RefuseNegation ==
  /\ ~NotAllowed(cur.name) /\ cur.name \in OptionNames
  /\ cur.neg /\ OptionInfo[cur.name].type \notin {"kBoolean", "kV8Option"}
  /\ Reject("negation")

ApplyFlag ==
  /\ ~NotAllowed(cur.name)
  /\ cur.name \in OptionNames =>
       ~TakesValue(cur.name) /\ (cur.neg => OptionInfo[cur.name].type # "kNoOp")
  /\ Accept(<<>>, args)

ApplyValue ==
  /\ ~NotAllowed(cur.name) /\ cur.name \in OptionNames
  /\ TakesValue(cur.name) /\ ~cur.neg
  /\ IF HasValue THEN Accept(Value, IF cur.eq THEN args ELSE Tail(args))
     ELSE Reject("requires an argument")

Apply ==
  /\ pc = "apply"
  /\ RefuseInEnv \/ RefuseNegation \/ ApplyFlag \/ ApplyValue
  /\ UNCHANGED <<start, phase, cur>>

\* The parser ends with CheckOptions, on the arguments that are left; the
\* program's name is one more before them.
CheckOptions ==
  /\ pc = "over"
  /\ \E nofile \in IF args = <<>> THEN BOOLEAN ELSE {Head(args) = Idle} :
       errors' = errors \cup ProcessErrors(written) \cup EnvironmentErrors(written, nofile)
  /\ written' = Checked(written)
  /\ cur' = Idle
  /\ IF errors' = {} /\ phase = "env"
     THEN phase' = "cmd" /\ args' = start.cmd /\ pc' = "loop"
     ELSE /\ phase' = IF errors' = {} THEN "started" ELSE "failed"
          /\ UNCHANGED args /\ pc' = "idle"
  /\ UNCHANGED <<start, v8_args>>

Init ==
  /\ start \in Starts
  /\ phase = "variables" /\ pc = "idle"
  /\ args = <<>> /\ cur = Idle
  /\ written = <<>> /\ v8_args = {} /\ errors = {}

Next == HandleEnvOptions \/ PopFirst \/ EndOfOptions \/ ExpandAlias \/ Apply \/ CheckOptions

\* One thread runs the start to its end.
Spec == Init /\ [][Next]_vars /\ WF_vars(Next)

-----------------------------------------------------------------------------
Started == phase = "started"
Now(field) == Lookup(written, field)
Words == start.env \o start.cmd
Given(name, neg) == \E i \in DOMAIN Words : Words[i].name = name /\ Words[i].neg = neg
Negated == \E i \in DOMAIN Words : Words[i].neg

\* Every field that was written has a value of its option's type.
TypeOK ==
  /\ phase \in {"variables", "env", "cmd", "started", "failed"}
  /\ pc \in {"idle", "loop", "alias", "apply", "over"}
  /\ \A name \in DOMAIN written \ {"inspect_publish_uid", "allow_attaching_debugger"} :
       CASE OptionInfo[name].type = "kBoolean" -> written[name] \in BOOLEAN
         [] OptionInfo[name].type = "kInteger" -> written[name] \in Int
         [] OptionInfo[name].type = "kUInteger" -> written[name] \in Nat
         [] OptionInfo[name].type = "kHostPort" -> DOMAIN written[name] = {"host", "port"}
         [] OptionInfo[name].type = "kStringList" -> written[name] \in Seq(Seq(Pieces))
         [] OTHER -> written[name] \in Seq(Pieces)

\* NODE_OPTIONS changes no field of an option that it may not have, through
\* aliases and implications either: a program cannot be evaluated, nor the
\* internals exposed, from the environment. The one exception is the internal
\* option that tells where the certificates are (OptionEnvvarSettings).
EnvvarConfined ==
  /\ TypeOK
  /\ phase = "env" =>
    \A name \in DOMAIN written \cap OptionNames :
      OptionInfo[name].allowed \/ name = "[ssl_openssl_cert_store]"

\* What the schema offers is what the parser takes from the environment: a
\* word for a "boolean" needs no value and one for another type always does,
\* and none is refused as not allowed (getEnvOptionsInputType). A word that is
\* alone in the environment, and none on the command line, shows it.
SchemaAccepted ==
  (/\ Len(start.env) = 1 /\ start.cmd = <<>>
   /\ start.env[1].name \in DOMAIN InputType /\ ~start.env[1].neg) =>
    LET word == start.env[1] IN
    /\ "not allowed" \notin errors
    /\ "requires an argument" \in errors =>
         word.text = <<>> /\ (word.eq \/ InputType[word.name] # "boolean")
    /\ InputType[word.name] # "boolean" /\ word.text = <<>> =>
         phase \in {"variables", "env", "failed"}

\* A process that breaks at its first line or waits for the inspector has the
\* inspector, and one that has paths to watch watches, unless a negated option
\* took that away again (Implies, wait_for_connect).
ImplicationsHold ==
  Started =>
    /\ Now("--inspect-brk") \/ Now("--inspect-brk-node") \/ Now("--inspect-wait") =>
         Now("--inspect") \/ Given("--inspect", TRUE)
    /\ Now("--watch-path") # <<>> => Now("--watch") \/ Given("--watch", TRUE)
    /\ Now("--experimental-transform-types") =>
         (Now("--enable-source-maps") \/ Given("--enable-source-maps", TRUE))

\* A process that was given a script to evaluate, the empty one too and by
\* whatever alias, was not given one to check, to test or to watch.
EvalKnown ==
  Started /\ "--eval" \in DOMAIN written =>
    ~Now("--check") /\ ~Now("--test") /\ ~Now("--watch")

\* Which store the certificates come from agrees with the option that was
\* given last, in NODE_OPTIONS or on the command line, and never with two.
CertStoreAgrees ==
  Started /\ ~Negated =>
    /\ ~(Now("--use-openssl-ca") /\ Now("--use-bundled-ca"))
    /\ Now("[ssl_openssl_cert_store]") = Now("--use-openssl-ca")

\* What is implied holds in the end, whatever the order of the words: for the
\* inspector and the watcher, for --eval, and for the store of certificates.
Implied == ImplicationsHold /\ EvalKnown /\ CertStoreAgrees

\* The destinations of the inspector's address are those of the last
\* --inspect-publish-uid, though CheckOptions ran on an earlier one.
UidFollowsLast ==
  Started =>
    {<<d>> : d \in Now("inspect_publish_uid")} = Entries(Now("--inspect-publish-uid"), ",")

\* Nothing attaches a debugger to a process that watches or that runs tests in
\* processes of their own, and something may to any other, unless NODE_OPTIONS
\* had it watch.
DebuggerKept ==
  Started =>
    /\ Now("allow_attaching_debugger") =>
         ~Now("--watch") /\ (Now("--test") => Now("--test-isolation") = <<"none">>)
    /\ Now("allow_attaching_debugger") \/ Now("--watch") \/ Now("--test")
         \/ Given("--watch", FALSE) \/ Given("--watch-path", FALSE)

\* The inspector listens on no port below 1024, and has a host.
PortValid ==
  Started =>
    /\ Now("--inspect-port").port \in {0} \cup LeastPort .. MaxPort
    /\ Now("--inspect-port").host # <<>>

\* The three together: what the inspector does is settled by the
\* last words about it, whichever pass read them.
InspectorSettled == UidFollowsLast /\ DebuggerKept /\ PortValid

\* The sizes that OpenSSL's secure heap gets are powers of two, the minimum
\* one that fits the heap and an int, though the heap may have been another
\* when CheckOptions first bounded the minimum.
SecureHeapSane ==
  Started /\ Now("--secure-heap") >= 2 =>
    LET min == Now("--secure-heap-min") IN
    /\ PowerOfTwo(Now("--secure-heap")) /\ PowerOfTwo(min)
    /\ 2 <= min /\ min <= Now("--secure-heap") /\ min <= IntMax

\* What a word says of its option, and what the last word of a name says, or
\* old where there is none.
Says(word) == IF OptionInfo[word.name].type = "kBoolean" THEN ~word.neg ELSE word.text

LastSaid(name, words, old) ==
  LET at == {i \in DOMAIN words : words[i].name = name}
  IN IF at = {} THEN old ELSE Says(words[Max(at)])

Said(name, words) == LastSaid(name, words, InitialValue(name))

\* A word that is no argument and no alias: it speaks of the option it names.
Plain(word) == word.name \notin {"argument", "--"} \cup {a.from : a \in aliases_}

SpelledOut == \A i \in DOMAIN Words : Plain(Words[i])

\* The directory that the check of NODE_OPTIONS gives to a profile: it stays,
\* whatever --diagnostic-dir the command line has.
KeptDir(profile) ==
  IF Said(profile.on, start.env) THEN Said("--diagnostic-dir", start.env) ELSE <<>>

\* Where a profile goes, by the words alone.
DirOf(profile) ==
  CASE Said(profile.dir, Words) # <<>> -> Said(profile.dir, Words)
    [] Said(profile.dir, Words) = <<>> /\ KeptDir(profile) # <<>> -> KeptDir(profile)
    [] OTHER -> Said("--diagnostic-dir", Words)

\* A profile that is taken goes where the last word of its own option says,
\* wherever that stands. Without one it goes to the directory for diagnostics:
\* to that of NODE_OPTIONS if the profile is asked for there too, as the first
\* CheckOptions has settled it, and else to the last one given. No process has
\* a place for a profile that it does not take. Which words are an option's is
\* plain only where they are all spelled out.
ProfilesPlaced ==
  Started =>
    \A profile \in {CpuProf, HeapProf} :
      IF Now(profile.on) THEN SpelledOut => Now(profile.dir) = DirOf(profile)
      ELSE Now(profile.dir) = <<>> /\ Now(profile.name) = <<>>

\* Every start ends, with a process or an error: no chain of aliases expands
\* for ever.
EveryStartEnds == <>(phase \in {"started", "failed"})
=============================================================================
