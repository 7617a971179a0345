---------------------------- MODULE AddonLoader ----------------------------
(***************************************************************************)
(* process.dlopen of node_binding.cc on several threads, each with its     *)
(* environment: the hand-over of a module from a library's constructors to *)
(* DLOpen, the map of handles that all threads share, the mutex around     *)
(* loading, the close of an environment's libraries, and the libraries     *)
(* that the FFI opens through the same class DLib.                         *)
(*                                                                         *)
(* A library stands for its handle: a library that is loaded again is at   *)
(* the same address.  Each frame of a thread is one DLib at work.          *)
(***************************************************************************)
EXTENDS Integers, Sequences, FiniteSets, SequencesExt

CONSTANTS
  Threads, Libs,
  Addon,      \* what each library contains
  FfiLibs,    \* libraries that programs open with the FFI
  MaxDepth,   \* most loads inside each other
  MaxAddons,  \* most libraries that one environment has loaded
  MaxOpens,   \* most times that one library is open when a load begins
  NULL

\* self: a constructor calls node_module_register.  context and legacy: its
\* node_module has nm_context_register_func, nm_register_func.  version: it
\* has the right one.  callback: the library exports an initializer.
AddonKinds == [self : BOOLEAN, context : BOOLEAN, legacy : BOOLEAN,
               version : BOOLEAN, callback : BOOLEAN]

ASSUME AddonAssumption ==
  /\ IsFiniteSet(Threads)
  /\ Addon \in [Libs -> AddonKinds]
  /\ FfiLibs \subseteq Libs
  /\ MaxDepth \in Nat /\ MaxAddons \in Nat /\ MaxOpens \in Nat
  /\ NULL \notin Threads \cup Libs

VARIABLES
  musl,     \* libc_may_be_musl()
  force,    \* env->force_context_aware()
  opens,    \* how often each library is open, as the dynamic linker counts
  unclosed, \* libraries that a DLib has left open: with musl, or dlclose failed
  map,      \* global_handle_map: refcount and module of each handle
  lock,     \* the thread that holds dlib_load_mutex
  pending,  \* thread_local_modpending
  frames,   \* each thread's DLibs at work, innermost last
  addons,   \* loaded_addons_ of each thread's environment
  leaving,  \* threads whose environment is being destroyed
  ffi,      \* libraries that each thread has open through the FFI
  aborted   \* whether CHECK_NULL(thread_local_modpending) has failed

vars == <<musl, force, opens, unclosed, map, lock, pending, frames, addons, leaving, ffi, aborted>>

-----------------------------------------------------------------------------
Top(t) == Last(frames[t])
At(t, pc) == frames[t] # <<>> /\ Top(t).pc = pc
GoTo(t, pc) == frames' = [frames EXCEPT ![t][Len(frames[t])].pc = pc]
Pop(t) == frames' = [frames EXCEPT ![t] = Front(@)]

\* JavaScript, or an addon's initializer, runs on t.
RunsUserCode(t) ==
  /\ ~aborted /\ t \notin leaving
  /\ frames[t] # <<>> => Top(t).pc \in {"user", "user_locked"}

\* dlopen(): constructors run when the library was not loaded.
Registers(l) == opens[l] = 0 /\ Addon[l].self

\* dlclose(): a module in a library that is unloaded is gone with it.
CloseHandle(l) ==
  /\ opens' = [opens EXCEPT ![l] = @ - 1]
  /\ map' = IF opens[l] = 1 /\ map[l].module = "live"
            THEN [map EXCEPT ![l].module = "stale"] ELSE map

\* Mutant: get_and_increase_refcount only gets.
FoundInMap(l) == map

\* Mutant: erase takes the whole entry.
EntryErased(l) == [map EXCEPT ![l] = [refcount |-> 0, module |-> "none"]]

\* global_handle_map_t::set, get_and_increase_refcount of a handle it has,
\* and erase.
SetInMap(l) == [map EXCEPT ![l] = [refcount |-> @.refcount + 1, module |-> "live"]]
CountedInMap(l) == [map EXCEPT ![l].refcount = @ + 1]
ErasedFromMap(l) ==
  IF map[l].refcount = 0 THEN map
  ELSE IF map[l].refcount > 1 THEN [map EXCEPT ![l].refcount = @ - 1]
  ELSE [map EXCEPT ![l] = [refcount |-> 0, module |-> "none"]]

-----------------------------------------------------------------------------
\* The program calls process.dlopen: CHECK_NULL, and a DLib in loaded_addons_.
DLOpen(t, l) ==
  /\ RunsUserCode(t)
  /\ Len(frames[t]) < MaxDepth /\ Len(addons[t]) + Len(frames[t]) < MaxAddons
  /\ opens[l] < MaxOpens
  /\ IF pending[t] # NULL
     THEN aborted' = TRUE /\ UNCHANGED frames
     ELSE /\ frames' = [frames EXCEPT ![t] =
                          Append(@, [lib |-> l, pc |-> "lock", entry |-> FALSE, saved |-> FALSE])]
          /\ UNCHANGED aborted
  /\ UNCHANGED <<musl, force, opens, unclosed, map, lock, pending, addons, leaving, ffi>>

Lock(t) ==
  /\ At(t, "lock") /\ lock = NULL
  /\ lock' = t
  /\ GoTo(t, "open")
  /\ UNCHANGED <<musl, force, opens, unclosed, map, pending, addons, leaving, ffi, aborted>>

\* Open: the constructors leave a module in thread_local_modpending, and DLOpen
\* takes it before anything else runs on t.
Open(t) ==
  /\ At(t, "open")
  /\ LET l == Top(t).lib IN
     /\ opens' = [opens EXCEPT ![l] = @ + 1]
     /\ GoTo(t, IF Registers(l) THEN "self_registered" ELSE "no_module")
     /\ pending' = [pending EXCEPT ![t] = NULL]
  /\ UNCHANGED <<musl, force, unclosed, map, lock, addons, leaving, ffi, aborted>>

\* Open fails: the file is missing or no library.
OpenFails(t) ==
  /\ At(t, "open")
  /\ Pop(t) /\ lock' = NULL
  /\ pending' = [pending EXCEPT ![t] = NULL]
  /\ UNCHANGED <<musl, force, opens, unclosed, map, addons, leaving, ffi, aborted>>

\* SaveInGlobalHandleMap, unless only context-aware addons are wanted.
SaveModule(t) ==
  /\ At(t, "self_registered")
  /\ LET l == Top(t).lib IN
     IF force /\ ~Addon[l].context
     THEN GoTo(t, "dlclose") /\ UNCHANGED map
     ELSE /\ map' = SetInMap(l)
          /\ frames' = [frames EXCEPT ![t][Len(frames[t])] =
                          [@ EXCEPT !.pc = "version", !.entry = TRUE, !.saved = TRUE]]
  /\ UNCHANGED <<musl, force, opens, unclosed, lock, pending, addons, leaving, ffi, aborted>>

\* No module was registered: the library's own initializer, or the module
\* that another load has saved.
FindModule(t) ==
  /\ At(t, "no_module")
  /\ LET l == Top(t).lib
         found == map[l].refcount > 0
     IN IF Addon[l].callback
        THEN GoTo(t, "user_locked") /\ UNCHANGED map
        ELSE /\ map' = IF found THEN CountedInMap(l) ELSE map
             /\ frames' = [frames EXCEPT ![t][Len(frames[t])] =
                  [@ EXCEPT !.pc = IF found /\ Addon[l].context THEN "version" ELSE "dlclose",
                            !.entry = TRUE, !.saved = found]]
  /\ UNCHANGED <<musl, force, opens, unclosed, lock, pending, addons, leaving, ffi, aborted>>

\* Mutant: the lock is kept.
KeepsLock(t) == lock

\* ScopedUnlock.
Unlocked(t) == NULL

\* The version, and "do not keep the lock while running userland addon
\* loading code".
CheckVersion(t) ==
  /\ At(t, "version")
  /\ LET a == Addon[Top(t).lib] IN
     IF a.version
     THEN /\ lock' = Unlocked(t)
          /\ GoTo(t, IF a.context \/ a.legacy THEN "user" ELSE "dlclose")
     ELSE /\ GoTo(t, IF a.callback THEN "user_locked" ELSE "dlclose")
          /\ UNCHANGED lock
  /\ UNCHANGED <<musl, force, opens, unclosed, map, pending, addons, leaving, ffi, aborted>>

-----------------------------------------------------------------------------
\* A DLib leaves its frame: into loaded_addons_, or closed.
Done(t, kept) ==
  /\ Pop(t)
  /\ addons' = IF kept THEN [addons EXCEPT ![t] = Append(@, [Top(t) EXCEPT !.pc = "loaded"])]
                       ELSE addons

\* The initializer that ran under the lock returns.
ReturnLocked(t) ==
  /\ At(t, "user_locked")
  /\ Done(t, TRUE) /\ lock' = NULL
  /\ UNCHANGED <<musl, force, opens, unclosed, map, pending, leaving, ffi, aborted>>

\* The initializer that ran without it returns: the ScopedUnlock takes the
\* lock again, and the ScopedLock gives it back.
Return(t) ==
  /\ At(t, "user") /\ lock = NULL
  /\ Done(t, TRUE)
  /\ UNCHANGED <<musl, force, opens, unclosed, map, lock, pending, leaving, ffi, aborted>>

\* DLib::Close, first half.  With musl it does nothing; dlclose may fail.
Close(t) ==
  /\ At(t, "dlclose")
  /\ \/ ~musl /\ CloseHandle(Top(t).lib) /\ GoTo(t, "erase")
     \/ UNCHANGED <<opens, map>> /\ GoTo(t, "left_open")
  /\ UNCHANGED <<musl, force, unclosed, lock, pending, addons, leaving, ffi, aborted>>

\* err == 0 and has_entry_in_global_handle_map_.
Erases(f) == f.pc = "erase" /\ f.entry

\* DLib::Close, second half, and the return of DLOpen that follows: it holds
\* the lock or takes it once more.
Erase(t) ==
  /\ At(t, "erase") \/ At(t, "left_open")
  /\ t \notin leaving => lock \in {t, NULL}
  /\ map' = IF Erases(Top(t)) THEN ErasedFromMap(Top(t).lib) ELSE map
  /\ unclosed' = IF At(t, "left_open") THEN unclosed \cup {Top(t).lib} ELSE unclosed
  /\ lock' = IF lock = t THEN NULL ELSE lock
  /\ Done(t, FALSE)
  /\ UNCHANGED <<musl, force, opens, pending, leaving, ffi, aborted>>

\* The environment is destroyed and closes its libraries one by one; in the
\* end a new thread takes the place of the old one.  Programs close their FFI
\* libraries first: nothing else does.
Leave(t) ==
  /\ ~aborted /\ frames[t] = <<>> /\ ffi[t] = {}
  /\ leaving' = leaving \cup {t}
  /\ IF addons[t] # <<>>
     THEN /\ frames' = [frames EXCEPT ![t] = <<[Head(addons[t]) EXCEPT !.pc = "dlclose"]>>]
          /\ addons' = [addons EXCEPT ![t] = Tail(@)]
     ELSE UNCHANGED <<frames, addons>>
  /\ UNCHANGED <<musl, force, opens, unclosed, map, lock, pending, ffi, aborted>>

Restart(t) ==
  /\ t \in leaving /\ frames[t] = <<>> /\ addons[t] = <<>>
  /\ leaving' = leaving \ {t}
  /\ pending' = [pending EXCEPT ![t] = NULL]
  /\ UNCHANGED <<musl, force, opens, unclosed, map, lock, frames, addons, ffi, aborted>>

\* LoadLibrary and FreeLibrary of node_ffi.cc: Open and Close of a DLib that
\* is never saved.
FfiOpen(t, l) ==
  /\ RunsUserCode(t)
  /\ l \in FfiLibs \ ffi[t] /\ opens[l] < MaxOpens
  /\ opens' = [opens EXCEPT ![l] = @ + 1]
  /\ pending' = [pending EXCEPT ![t] = IF Registers(l) THEN l ELSE @]
  /\ ffi' = [ffi EXCEPT ![t] = @ \cup {l}]
  /\ UNCHANGED <<musl, force, unclosed, map, lock, frames, addons, leaving, aborted>>

FfiClose(t, l) ==
  /\ RunsUserCode(t)
  /\ l \in ffi[t]
  /\ \/ ~musl /\ CloseHandle(l) /\ UNCHANGED unclosed
     \/ UNCHANGED <<opens, map>> /\ unclosed' = unclosed \cup {l}
  /\ ffi' = [ffi EXCEPT ![t] = @ \ {l}]
  /\ UNCHANGED <<musl, force, lock, pending, frames, addons, leaving, aborted>>

-----------------------------------------------------------------------------
Init ==
  /\ musl \in BOOLEAN /\ force \in BOOLEAN
  /\ opens = [l \in Libs |-> 0] /\ unclosed = {}
  /\ map = [l \in Libs |-> [refcount |-> 0, module |-> "none"]]
  /\ lock = NULL
  /\ pending = [t \in Threads |-> NULL]
  /\ frames = [t \in Threads |-> <<>>]
  /\ addons = [t \in Threads |-> <<>>]
  /\ leaving = {}
  /\ ffi = [t \in Threads |-> {}]
  /\ aborted = FALSE

Next ==
  \E t \in Threads :
    \/ \E l \in Libs : DLOpen(t, l) \/ FfiOpen(t, l) \/ FfiClose(t, l)
    \/ Lock(t) \/ Open(t) \/ OpenFails(t) \/ SaveModule(t) \/ FindModule(t)
    \/ CheckVersion(t) \/ ReturnLocked(t) \/ Return(t)
    \/ Close(t) \/ Erase(t) \/ Leave(t) \/ Restart(t)

Spec == Init /\ [][Next]_vars

-----------------------------------------------------------------------------
Pcs == {"lock", "open", "self_registered", "no_module", "version", "user",
        "user_locked", "dlclose", "left_open", "erase"}

\* saved says whether the handle map counts this DLib; the code has entry only.
DLibs(pcs) == [lib : Libs, pc : pcs, entry : BOOLEAN, saved : BOOLEAN]

TypeOK ==
  /\ musl \in BOOLEAN /\ force \in BOOLEAN /\ aborted \in BOOLEAN
  /\ opens \in [Libs -> Nat] /\ unclosed \subseteq Libs
  /\ map \in [Libs -> [refcount : Nat, module : {"none", "live", "stale"}]]
  /\ lock \in Threads \cup {NULL}
  /\ pending \in [Threads -> Libs \cup {NULL}]
  /\ frames \in [Threads -> Seq(DLibs(Pcs))]
  /\ addons \in [Threads -> Seq(DLibs({"loaded"}))]
  /\ leaving \subseteq Threads
  /\ ffi \in [Threads -> SUBSET FfiLibs]

\* The DLibs that have library l open, and those that the handle map counts.
Opening(l) == {d \in DLibs(Pcs \cup {"loaded"}) :
                 d.lib = l /\ d.pc \notin {"lock", "open", "erase"}}
Saved(l) == {d \in DLibs(Pcs \cup {"loaded"}) : d.lib = l /\ d.saved}

\* Where the sequences of ds have a member of D, and how many DLibs of D
\* there are, at work or loaded.
Places(ds, D) == {p \in UNION {{t} \X DOMAIN ds[t] : t \in Threads} : ds[p[1]][p[2]] \in D}
Count(D) == Cardinality(Places(frames, D)) + Cardinality(Places(addons, D))

\* Whatever threads load, fail to load and leave at the same time, every
\* library is open as often as a DLib or the FFI has it open, and the map
\* counts exactly the DLibs that saved or found a module; where one was left
\* open, with musl or because dlclose failed, neither counts too few.
CountsExact ==
  /\ TypeOK
  /\ \A l \in Libs :
    LET open == Count(Opening(l)) + Cardinality({t \in Threads : l \in ffi[t]})
        saved == Count(Saved(l))
    IN IF l \in unclosed THEN opens[l] >= open /\ map[l].refcount >= saved
                         ELSE opens[l] = open /\ map[l].refcount = saved

\* No load ever uses a module whose library was unloaded behind its back, by
\* the environment of another thread (mp in DLOpen).
ModulesAlive ==
  \A t \in Threads :
    At(t, "version") => map[Top(t).lib].module = "live" /\ opens[Top(t).lib] > 0

\* "Do not keep the lock while running userland addon loading code" holds for
\* the initializers that are called through a module, and for no other: a
\* thread waits for a lock that it holds itself exactly if an initializer that
\* was found by its symbol asks for another addon.
SelfWaitsBySymbol ==
  \A t \in Threads : At(t, "lock") =>
    LET n == Len(frames[t]) IN
    lock = t <=> n > 1 /\ frames[t][n - 1].pc = "user_locked"

\* CHECK_NULL(thread_local_modpending): when a program calls process.dlopen,
\* no earlier load has left a module behind on its thread.
NothingPending == ~aborted
=============================================================================
