--------------------------- MODULE BuiltinLoader ---------------------------
(***************************************************************************)
(* The life of the built-in modules, ffi among them, in realm.js: which of *)
(* them a program may require, and BuiltinModule.compileForInternalLoader, *)
(* which runs a module's function, maybe in a cycle of requires, maybe in  *)
(* vain, and remembers what came of it.                                    *)
(*                                                                         *)
(* What a module has put into its exports is "none", "some" or "all" of    *)
(* its names.                                                              *)
(***************************************************************************)
EXTENDS Integers, Sequences, FiniteSets, SequencesExt

CONSTANTS
  PublicIds,              \* built-in modules outside internal/
  InternalIds,            \* those in internal/, selfId left out
  schemelessBlockList,    \* modules that need the node: scheme
  experimentalModuleList  \* modules enabled at run time only

ASSUME BuiltinAssumption ==
  /\ IsFiniteSet(PublicIds) /\ IsFiniteSet(InternalIds)
  /\ PublicIds \cap InternalIds = {}
  /\ schemelessBlockList \subseteq PublicIds
  /\ experimentalModuleList \subseteq PublicIds

VARIABLES
  flags,          \* experimental modules whose flag was given
  exposed,        \* whether --expose-internals was given
  started,        \* whether pre-execution is over and the program runs
  canBeRequiredByUsersList, canBeRequiredByUsersWithoutSchemeList,
  realmIds,       \* history: the list that a shadow realm was given
  loaded, loading,  \* modules with that field set
  exports,          \* what each module has exported so far
  exportKeys,       \* exportKeys field of each module
  stack,            \* modules whose function is running, innermost last
  moduleLoadList    \* process.moduleLoadList

lists == <<canBeRequiredByUsersList, canBeRequiredByUsersWithoutSchemeList, realmIds>>
life == <<loaded, loading, exports, exportKeys, stack, moduleLoadList>>
vars == <<flags, exposed, started, lists, life>>

Ids == PublicIds \cup InternalIds

publicBuiltinIds == PublicIds \ experimentalModuleList

\* A function called by the program's own require, and not by a built-in's.
ByUser(id) == [id |-> id, public |-> TRUE]
ByBuiltin(id) == [id |-> id, public |-> FALSE]

Running == {stack[i].id : i \in DOMAIN stack}

-----------------------------------------------------------------------------
\* Mutant: the scheme list gets every identifier.
AllowBoth(ids) ==
  /\ canBeRequiredByUsersList' = canBeRequiredByUsersList \cup ids
  /\ canBeRequiredByUsersWithoutSchemeList' =
       canBeRequiredByUsersWithoutSchemeList \cup ids

AllowRequireByUsers(ids) ==
  /\ canBeRequiredByUsersList' = canBeRequiredByUsersList \cup ids
  /\ canBeRequiredByUsersWithoutSchemeList' =
       canBeRequiredByUsersWithoutSchemeList \cup (ids \ schemelessBlockList)

\* Pre-execution enables the experimental modules whose flag was given, and
\* the internal modules with --expose-internals.
PreExecution ==
  /\ ~started /\ stack = <<>>
  /\ started' = TRUE
  /\ AllowRequireByUsers(flags \cup IF exposed THEN InternalIds ELSE {})
  /\ UNCHANGED <<flags, exposed, realmIds, life>>

\* A shadow realm allows a list of modules instead.  Who calls it is not in the
\* repository, and only the first list looks at what is public.
SetRealmAllowRequireByUsers(ids) ==
  /\ ~started /\ stack = <<>>
  /\ started' = TRUE
  /\ canBeRequiredByUsersList' = ids \cap publicBuiltinIds
  /\ canBeRequiredByUsersWithoutSchemeList' = ids \ schemelessBlockList
  /\ realmIds' = ids
  /\ UNCHANGED <<flags, exposed, life>>

-----------------------------------------------------------------------------
\* compileForInternalLoader of a module that is neither loaded nor loading:
\* its function starts.
Run(frame) ==
  /\ frame.id \notin loaded \cup loading
  /\ loading' = loading \cup {frame.id}
  /\ stack' = Append(stack, frame)

\* Mutant: the names are taken before the module has run.
KeysAtOnce(id, now) == [exportKeys EXCEPT ![id] = exports[id]]

\* compileForPublicLoader after compileForInternalLoader, with the exports
\* of then: internal modules show no names.
KeysTaken(id, now) ==
  IF exportKeys[id] # "undefined" THEN exportKeys
  ELSE [exportKeys EXCEPT ![id] = IF id \in InternalIds THEN "none" ELSE now]

\* requireBuiltin by a built-in module's function, or by the program's call
\* of a built-in.
RequireBuiltin(id) ==
  /\ Run(ByBuiltin(id))
  /\ UNCHANGED <<flags, exposed, started, lists, loaded, exports, exportKeys, moduleLoadList>>

\* normalizeRequirableId: the program may ask for id with the node: scheme or
\* without it.
Requirable(id, scheme) ==
  id \in IF scheme THEN canBeRequiredByUsersList ELSE canBeRequiredByUsersWithoutSchemeList

\* Mutant: the assertion is gone.
AnyForPublic(id) == TRUE

\* "Should not compile for public use": the assertion throws, and nothing has
\* changed.
ForPublicUse(id) == id \in canBeRequiredByUsersList

\* The program requires a module, maybe from a function of its own that a
\* built-in calls while it is loaded: compileForPublicLoader.
Require(id, scheme) ==
  /\ started
  /\ Requirable(id, scheme) /\ ForPublicUse(id)
  /\ \/ /\ Run(ByUser(id))
        /\ UNCHANGED exportKeys
     \/ /\ id \in loaded \cup loading
        /\ exportKeys' = KeysTaken(id, exports[id])
        /\ UNCHANGED <<loading, stack>>
  /\ UNCHANGED <<flags, exposed, started, lists, loaded, exports, moduleLoadList>>

\* The function that runs exports some of its names.
Export ==
  /\ stack # <<>> /\ exports[Last(stack).id] = "none"
  /\ exports' = [exports EXCEPT ![Last(stack).id] = "some"]
  /\ UNCHANGED <<flags, exposed, started, lists, loaded, loading, exportKeys, stack, moduleLoadList>>

\* Mutant: a module stays marked as loading.
StillLoading(id) == loading

\* The finally block.
NotLoading(id) == loading \ {id}

\* Mutant: loaded is not set.
LoadedForgotten(id) == loaded

LoadedAfter(id) == loaded \cup {id}

\* The function that runs returns, having exported the rest.
Return ==
  /\ stack # <<>>
  /\ LET frame == Last(stack) IN
       /\ loaded' = LoadedAfter(frame.id)
       /\ loading' = NotLoading(frame.id)
       /\ exports' = [exports EXCEPT ![frame.id] = "all"]
       /\ moduleLoadList' = Append(moduleLoadList, frame.id)
       /\ stack' = Front(stack)
       /\ exportKeys' = IF frame.public THEN KeysTaken(frame.id, "all") ELSE exportKeys
  /\ UNCHANGED <<flags, exposed, started, lists>>

\* It throws: the exports stay, and the caller's function may go on or throw.
Throw ==
  /\ stack # <<>>
  /\ loading' = NotLoading(Last(stack).id)
  /\ stack' = Front(stack)
  /\ UNCHANGED <<flags, exposed, started, lists, loaded, exports, exportKeys, moduleLoadList>>

Init ==
  /\ flags \in SUBSET experimentalModuleList /\ exposed \in BOOLEAN
  /\ started = FALSE
  /\ canBeRequiredByUsersList = publicBuiltinIds
  /\ canBeRequiredByUsersWithoutSchemeList = publicBuiltinIds \ schemelessBlockList
  /\ realmIds = {}
  /\ loaded = {} /\ loading = {}
  /\ exports = [id \in Ids |-> "none"]
  /\ exportKeys = [id \in Ids |-> "undefined"]
  /\ stack = <<>> /\ moduleLoadList = <<>>

Next ==
  \/ PreExecution
  \/ \E ids \in SUBSET Ids : SetRealmAllowRequireByUsers(ids)
  \/ \E id \in Ids : RequireBuiltin(id) \/ \E scheme \in BOOLEAN : Require(id, scheme)
  \/ Export \/ Return \/ Throw

Spec == Init /\ [][Next]_vars

-----------------------------------------------------------------------------
TypeOK ==
  /\ flags \subseteq experimentalModuleList /\ exposed \in BOOLEAN /\ started \in BOOLEAN
  /\ canBeRequiredByUsersList \subseteq Ids
  /\ canBeRequiredByUsersWithoutSchemeList \subseteq Ids /\ realmIds \subseteq Ids
  /\ loaded \subseteq Ids /\ loading \subseteq Ids
  /\ exports \in [Ids -> {"none", "some", "all"}]
  /\ exportKeys \in [Ids -> {"undefined", "none", "some", "all"}]
  /\ stack \in Seq([id : Ids, public : BOOLEAN]) /\ Len(stack) <= Cardinality(Ids)
  /\ moduleLoadList \in Seq(Ids)

\* A module is marked as loading exactly while its function runs, and no
\* function runs inside itself: a require that gets unfinished exports is part
\* of a cycle, and a module that threw is run again when it is asked for.
LoadingIsRunning ==
  /\ TypeOK
  /\ loading = Running
  /\ \A i, j \in DOMAIN stack : stack[i].id = stack[j].id => i = j

\* Every module succeeds at most once, and what it exported is all there.
LoadedOnce ==
  /\ loaded = ToSet(moduleLoadList) /\ IsInjective(moduleLoadList)
  /\ \A id \in loaded : exports[id] = "all"

\* The names a program imports from a public module are all its names, even
\* if it was loaded in a cycle or after a failure, unless the program asked for
\* the module while the module's own function was running
\* (compileForPublicLoader): what it then had exported is what stays.
KeysComplete ==
  [][\A id \in PublicIds : exportKeys'[id] # exportKeys[id] =>
       exportKeys'[id] = "all" \/ id \in loading \cap loading']_vars

\* No module of the scheme-only list is found without the scheme, and what is
\* found without it can be required at all, so that the assertion in
\* compileForPublicLoader throws only in a realm whose own list names a module
\* that is not public.
SchemesAgree ==
  /\ canBeRequiredByUsersWithoutSchemeList \cap schemelessBlockList = {}
  /\ canBeRequiredByUsersWithoutSchemeList \ canBeRequiredByUsersList
       \subseteq realmIds \ publicBuiltinIds

\* "Modules that will only be enabled at run time": a program gets such a
\* module only when its flag was given, and an internal one only with
\* --expose-internals, however the module came to be loaded before and whatever
\* list its realm was given (experimentalModuleList, compileForPublicLoader).
FlagsNeeded ==
  \A id \in Ids : exportKeys[id] # "undefined" =>
    /\ id \in experimentalModuleList => id \in flags
    /\ id \in InternalIds => exposed
=============================================================================
