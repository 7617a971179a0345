------------------------------ MODULE Bindings ------------------------------
(***************************************************************************)
(* The bindings of node_binding.cc and their loaders in realm.js: the      *)
(* lists that modules register in, internalBinding(), process.binding()    *)
(* and process._linkedBinding().  A worker looks for linked bindings in    *)
(* its parents' lists too, which their embedders extend meanwhile, and the *)
(* initializer of a linked binding is a user's code, which may ask for     *)
(* bindings again.                                                         *)
(*                                                                         *)
(* Exports stand for the run of the initializer that made them.            *)
(***************************************************************************)
EXTENDS Integers, Sequences, FiniteSets, SequencesExt

CONSTANTS
  Environments,
  Parent,     \* worker_parent_env() of each, or None
  Modules, Names,
  Name,       \* nm_modname of each module
  Internal,   \* modules compiled in with NM_F_INTERNAL
  Linked,     \* modules that an executable with Node.js in it registers
  Extra,      \* modules that embedders add to an environment
  Exports,    \* what a linked module's initializer leaves in module.exports
  processBindingAllowList, legacyWrapperList,
  MaxRuns,    \* bound: initializers of linked modules, all environments together
  MaxDepth,   \* bound: calls of _linkedBinding inside each other
  None

\* An environment, the one it is a worker of, and so on to one that is none's.
IsAncestry(s, e) ==
  /\ s # <<>> /\ s[1] = e /\ Parent[Last(s)] = None
  /\ \A i \in 1 .. Len(s) - 1 : s[i + 1] = Parent[s[i]]

Ancestries == BoundedSeq(Environments, Cardinality(Environments))

ASSUME WorkersAssumption ==
  /\ IsFiniteSet(Environments) /\ None \notin Environments
  /\ Parent \in [Environments -> Environments \cup {None}]
  /\ \A e \in Environments : \E s \in Ancestries : IsAncestry(s, e)

ASSUME BindingsAssumption ==
  /\ Name \in [Modules -> Names]
  /\ Internal \cup Linked \cup Extra = Modules /\ IsFiniteSet(Internal)
  /\ Internal \cap (Linked \cup Extra) = {} /\ Linked \cap Extra = {}
  /\ Exports \in [Modules -> {"object", "function", "no entry point"}]
  /\ processBindingAllowList \cup legacyWrapperList \subseteq Names
  /\ MaxRuns \in Nat /\ MaxDepth \in Nat
  /\ None \notin Modules

VARIABLES
  nm_flags,             \* of each module
  modlist_internal, modlist_linked,  \* the last registered first
  node_is_initialized,
  extra_linked_bindings,  \* of each environment
  internalCache,        \* bindingObj of internalBinding(): a module per name
  internal_bindings, moduleLoadList,  \* of each environment's realm
  linkedCache,          \* bindingObj of process.binding() and _linkedBinding()
  frames,               \* calls of _linkedBinding, innermost last
  runs,                 \* initializers of linked modules that have started
  reached,              \* internal modules that each program has got
  aborted               \* whether the CHECK in FindModule has failed

lists == <<nm_flags, modlist_internal, modlist_linked, node_is_initialized, extra_linked_bindings>>
realm == <<internalCache, internal_bindings, moduleLoadList>>
vars == <<lists, realm, linkedCache, frames, runs, reached, aborted>>

Nothing == [module |-> None, run |-> 0]
IsObject(cached) == cached.module # None /\ Exports[cached.module] = "object"

\* Where GetLinkedBinding looks: the environment and those it is a worker of.
Chain == [e \in Environments |-> CHOOSE s \in Ancestries : IsAncestry(s, e)]

-----------------------------------------------------------------------------
\* Mutant: a linked module keeps the flags it came with.
FlagsKept(m) == nm_flags

FlaggedLinked(m) == [nm_flags EXCEPT ![m] = "NM_F_LINKED"]

\* node_module_register() of a linked module, in a static constructor. One
\* that comes when node_is_initialized is an addon's: see AddonLoader.
RegisterLinked(m) ==
  /\ ~node_is_initialized /\ m \in Linked \ ToSet(modlist_linked)
  /\ nm_flags' = FlaggedLinked(m)
  /\ modlist_linked' = <<m>> \o modlist_linked
  /\ UNCHANGED <<modlist_internal, node_is_initialized, extra_linked_bindings,
                 realm, linkedCache, frames, runs, reached, aborted>>

\* node::Init: RegisterBuiltinBindings, and user code may run.
RegisterBuiltinBindings ==
  /\ ~node_is_initialized /\ node_is_initialized' = TRUE
  /\ modlist_internal' = SetToSeq(Internal)
  /\ UNCHANGED <<nm_flags, modlist_linked, extra_linked_bindings,
                 realm, linkedCache, frames, runs, reached, aborted>>

\* An embedder's AddLinkedBinding, under the list's mutex, on any thread.
AddLinkedBinding(d, m) ==
  /\ node_is_initialized /\ m \in Extra
  /\ \A e \in Environments : m \notin ToSet(extra_linked_bindings[e])
  /\ nm_flags' = [nm_flags EXCEPT ![m] = "NM_F_LINKED"]
  /\ extra_linked_bindings' = [extra_linked_bindings EXCEPT ![d] = Append(@, m)]
  /\ UNCHANGED <<modlist_internal, modlist_linked, node_is_initialized,
                 realm, linkedCache, frames, runs, reached, aborted>>

\* The first module of that name, or None; its flag is checked.
FindModule(list, name) ==
  LET found == SelectInSeq(list, LAMBDA m : Name[m] = name) IN
    IF found = 0 THEN None ELSE list[found]

Flagged(m, flag) == m = None \/ nm_flags[m] = flag

-----------------------------------------------------------------------------
\* A program is at work in e, or an initializer that it called.
Runs(e) ==
  /\ node_is_initialized /\ ~aborted
  /\ frames[e] # <<>> => Last(frames[e]).pc = "initializer"

\* What internalBinding() has answered already.
Remembered(e, name) == internalCache[e][name] # None

\* Mutant: internalBinding() forgets.
CacheForgotten(e, name, m) == internalCache

CacheWith(e, name, m) == [internalCache EXCEPT ![e][name] = m]

\* internalBinding(): GetInternalBinding runs the initializer, or throws.
InternalBinding(e, name) ==
  LET m == FindModule(modlist_internal, name) IN
    IF Remembered(e, name) \/ m = None THEN UNCHANGED <<realm, aborted>>
    ELSE /\ aborted' = ~Flagged(m, "NM_F_INTERNAL")
         /\ internalCache' = CacheWith(e, name, m)
         /\ internal_bindings' = [internal_bindings EXCEPT ![e] = @ \cup {m}]
         /\ moduleLoadList' = [moduleLoadList EXCEPT ![e] = Append(@, m)]

\* One of Node.js's own modules asks for a binding.
BuiltinAsks(e, name) ==
  /\ Runs(e) /\ InternalBinding(e, name)
  /\ UNCHANGED <<lists, linkedCache, frames, runs, reached>>

\* Mutant: what internalBinding() has loaded is for everybody.
SharedCache(e, name) ==
  IF IsObject(linkedCache[e][name]) THEN linkedCache[e][name].module
  ELSE internalCache[e][name]

\* The exports that process.binding() finds in its cache.
Cached(e, name) ==
  IF IsObject(linkedCache[e][name]) THEN linkedCache[e][name].module ELSE None

\* process.binding(): its cache, a legacy wrapper, or an allowed binding; for
\* any other name it throws. runtimeDeprecatedList is empty.
Binding(e, name) ==
  /\ Runs(e)
  /\ IF Cached(e, name) # None
     THEN /\ reached' = [reached EXCEPT ![e] = @ \cup ({Cached(e, name)} \cap Internal)]
          /\ UNCHANGED <<realm, aborted>>
     ELSE /\ name \in processBindingAllowList \ legacyWrapperList
          /\ InternalBinding(e, name)
          /\ reached' = [reached EXCEPT ![e] = @ \cup ({FindModule(modlist_internal, name)} \ {None})]
  /\ UNCHANGED <<lists, linkedCache, frames, runs>>

-----------------------------------------------------------------------------
\* The place in Chain[e] of the list that has the name, the one behind it for
\* modlist_linked, and one more when nobody has it.
Nearest(e, name) ==
  LET found == SelectInSeq(Chain[e], LAMBDA d : FindModule(extra_linked_bindings[d], name) # None) IN
    IF found # 0 THEN found
    ELSE Len(Chain[e]) + (IF FindModule(modlist_linked, name) # None THEN 1 ELSE 2)

\* Mutant: the list of the environment itself is not searched.
FirstIsParent == 2

FirstIsOwn == 1

\* Mutant: the cache is not consulted.
NeverCached(e, name) == FALSE

\* typeof mod === 'object'
InCache(e, name) == IsObject(linkedCache[e][name])

\* process._linkedBinding(): from its cache, or by GetLinkedBinding.
LinkedBinding(e, name) ==
  /\ Runs(e)
  /\ IF InCache(e, name)
     THEN UNCHANGED frames
     ELSE /\ Len(frames[e]) < MaxDepth
          /\ frames' = [frames EXCEPT ![e] = Append(@,
               [pc |-> "walk", name |-> name, at |-> FirstIsOwn, module |-> None, run |-> 0,
                nearest |-> Nearest(e, name)])]
  /\ UNCHANGED <<lists, realm, linkedCache, runs, reached, aborted>>

\* The list that the innermost call of e looks at next.
List(e) ==
  LET at == Last(frames[e]).at IN
    IF at <= Len(Chain[e]) THEN extra_linked_bindings[Chain[e][at]] ELSE modlist_linked

SetTop(e, frame) == frames' = [frames EXCEPT ![e][Len(frames[e])] = frame]
Pop(e) == frames' = [frames EXCEPT ![e] = Front(@)]

\* It looks at one list, under that list's mutex: goes on to the next, or to
\* run the initializer, or throws.
Walk(e) ==
  /\ frames[e] # <<>> /\ Last(frames[e]).pc = "walk" /\ ~aborted
  /\ LET frame == Last(frames[e])
         m == FindModule(List(e), frame.name)
     IN /\ aborted' = ~Flagged(m, "NM_F_LINKED")
        /\ CASE m = None /\ frame.at <= Len(Chain[e]) ->
                  SetTop(e, [frame EXCEPT !.at = @ + 1]) /\ UNCHANGED runs
             [] m # None /\ Exports[m] # "no entry point" ->
                  /\ runs < MaxRuns /\ runs' = runs + 1
                  /\ SetTop(e, [frame EXCEPT !.pc = "initializer", !.module = m, !.run = runs'])
             [] OTHER -> Pop(e) /\ UNCHANGED runs
  /\ UNCHANGED <<lists, realm, linkedCache, reached>>

\* The initializer returns; the exports are kept, whatever they are.
Return(e) ==
  /\ frames[e] # <<>> /\ Runs(e)
  /\ LET frame == Last(frames[e]) IN
       /\ linkedCache' = [linkedCache EXCEPT ![e][frame.name] =
                            [module |-> frame.module, run |-> frame.run]]
  /\ Pop(e)
  /\ UNCHANGED <<lists, realm, runs, reached, aborted>>

\* It throws.
Throw(e) ==
  /\ frames[e] # <<>> /\ Runs(e) /\ Pop(e)
  /\ UNCHANGED <<lists, realm, linkedCache, runs, reached, aborted>>

Init ==
  /\ nm_flags = [m \in Modules |-> IF m \in Internal THEN "NM_F_INTERNAL" ELSE "none"]
  /\ modlist_internal = <<>> /\ modlist_linked = <<>>
  /\ node_is_initialized = FALSE
  /\ extra_linked_bindings = [e \in Environments |-> <<>>]
  /\ internalCache = [e \in Environments |-> [name \in Names |-> None]]
  /\ internal_bindings = [e \in Environments |-> {}]
  /\ moduleLoadList = [e \in Environments |-> <<>>]
  /\ linkedCache = [e \in Environments |-> [name \in Names |-> Nothing]]
  /\ frames = [e \in Environments |-> <<>>]
  /\ runs = 0 /\ reached = [e \in Environments |-> {}] /\ aborted = FALSE

Next ==
  \/ \E m \in Modules : RegisterLinked(m)
  \/ RegisterBuiltinBindings
  \/ \E e \in Environments :
       \/ \E m \in Modules : AddLinkedBinding(e, m)
       \/ \E name \in Names : BuiltinAsks(e, name) \/ Binding(e, name) \/ LinkedBinding(e, name)
       \/ Walk(e) \/ Return(e) \/ Throw(e)

Spec == Init /\ [][Next]_vars

-----------------------------------------------------------------------------
\* The state has its types; an internal binding never comes from a user's list.
TypeOK ==
  /\ nm_flags \in [Modules -> {"none", "NM_F_INTERNAL", "NM_F_LINKED"}]
  /\ modlist_internal \in Seq(Internal) /\ modlist_linked \in Seq(Linked)
  /\ node_is_initialized \in BOOLEAN /\ aborted \in BOOLEAN
  /\ extra_linked_bindings \in [Environments -> Seq(Extra)]
  /\ internalCache \in [Environments -> [Names -> Internal \cup {None}]]
  /\ internal_bindings \in [Environments -> SUBSET Internal]
  /\ moduleLoadList \in [Environments -> Seq(Internal)]
  /\ linkedCache \in [Environments -> [Names -> [module : Linked \cup Extra \cup {None}, run : Nat]]]
  /\ \A e \in Environments : Len(frames[e]) <= MaxDepth
  /\ runs \in 0 .. MaxRuns
  /\ reached \in [Environments -> SUBSET Internal]

\* process.binding() and process._linkedBinding() share a cache that
\* internalBinding() must not share: whatever Node.js itself has loaded, a
\* program only reaches the internal bindings of processBindingAllowList.
BindingConfined ==
  \A e \in Environments : \A m \in reached[e] : Name[m] \in processBindingAllowList

\* The realm's set of bindings, the names it reports and the cache agree: a
\* binding is initialized once in each environment, however it is asked for.
LoadListExact ==
  \A e \in Environments :
    /\ ToSet(moduleLoadList[e]) = internal_bindings[e]
    /\ IsInjective(moduleLoadList[e])
    /\ internal_bindings[e] = {internalCache[e][name] : name \in Names} \ {None}

\* A search never passes the nearest list that had the name when it began, and
\* finds it there at the latest, though the lists grow on other threads and
\* each is locked only while it is searched (GetLinkedBinding).
NearestFound ==
  \A e \in Environments : \A i \in DOMAIN frames[e] :
    LET frame == frames[e][i] IN
      /\ frame.at <= frame.nearest
      /\ frame.at = frame.nearest /\ frame.at <= Len(Chain[e]) =>
           FindModule(extra_linked_bindings[Chain[e][frame.at]], frame.name) # None

\* No list has a module without the flag that FindModule checks: it would
\* abort the process.
ChecksHold == ~aborted

\* Every registry is exact: the process's lists, the realms' and the caches.
RegistriesExact == TypeOK /\ LoadListExact /\ ChecksHold

\* The object that _linkedBinding has given is given again by every later call:
\* only a call that began before it, and whose initializer asked for the same
\* binding, may put another one in its place.
LinkedStable ==
  [][\A e \in Environments, name \in Names :
       IsObject(linkedCache[e][name]) => linkedCache'[e][name].run <= linkedCache[e][name].run]_vars
=============================================================================
