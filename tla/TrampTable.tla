----------------------------- MODULE TrampTable -----------------------------
(***************************************************************************)
(* Static trampolines (deps/libffi/src/tramp.c) and the closures that use  *)
(* them (ffi_closure_alloc, ffi_closure_free and the prepare functions).   *)
(*                                                                         *)
(* A trampoline table is one mapping of NTramp trampolines; tables with    *)
(* free trampolines are on a doubly-linked list, and so are the free       *)
(* trampolines of each table.  Every ffi_tramp_* function holds            *)
(* tramp_globals_mutex from its first to its last access, so it is one     *)
(* step; the closures' own functions call several of them, and those of    *)
(* different closures, on different threads, interleave.                   *)
(***************************************************************************)
EXTENDS Integers, FiniteSets

CONSTANTS
  Closures,  \* chunks that dlmalloc hands out for closures
  Tables,    \* places where a trampoline table can be mapped
  NTramp,    \* trampolines in a table
  NativeRaw, \* FFI_NATIVE_RAW_API: x86/ffi.c prepares raw closures itself
  MaxBusy,   \* threads that are inside the closures' functions at a time
  NULL

ASSUME TrampAssumption ==
  /\ NTramp \in Nat \ {0} /\ MaxBusy \in Nat
  /\ NativeRaw \in BOOLEAN
  /\ NULL \notin Tables /\ NULL \notin Closures /\ NULL \notin Tables \X (1 .. NTramp)

VARIABLES
  platform, \* whether ffi_tramp_arch exists, and a page fits its mapping
  status,   \* tramp_globals.status
  pool,     \* the tables: see Pool
  parm,     \* parameters of each trampoline: the closure it enters
  pc,       \* how far each closure's function has come
  ftramp,   \* the ftramp field of each closure
  code      \* the code address ffi_closure_alloc returned for each closure

vars == <<platform, status, pool, parm, pc, ftramp, code>>

Ks == 1 .. NTramp
Slots == Tables \X Ks

-----------------------------------------------------------------------------
(* Doubly-linked lists, as both lists of tramp.c are kept.                 *)

Links(S, null) == [head : S \cup {null}, prev : [S -> S \cup {null}],
                   next : [S -> S \cup {null}]]

\* Put x in front of list l.
PushLink(l, x, null) ==
  [head |-> x,
   prev |-> [y \in DOMAIN l.prev |-> IF y = x THEN null
                                     ELSE IF y = l.head THEN x ELSE l.prev[y]],
   next |-> [l.next EXCEPT ![x] = l.head]]

\* Mutant: the successor's prev is not mended.
UnlinkForward(l, x, null) ==
  [head |-> IF l.head = x THEN l.next[x] ELSE l.head,
   prev |-> l.prev,
   next |-> [y \in DOMAIN l.next |-> IF y = l.prev[x] THEN l.next[x]
                                     ELSE l.next[y]]]

\* Take x out of list l; x itself keeps its links.
Unlink(l, x, null) ==
  [head |-> IF l.head = x THEN l.next[x] ELSE l.head,
   prev |-> [y \in DOMAIN l.prev |-> IF y = l.next[x] THEN l.prev[x]
                                     ELSE l.prev[y]],
   next |-> [y \in DOMAIN l.next |-> IF y = l.prev[x] THEN l.next[x]
                                     ELSE l.next[y]]]

-----------------------------------------------------------------------------
(* The tables.                                                             *)

Pool == [mapped : SUBSET Tables,            \* tables that exist
         tables : Links(Tables, NULL),      \* free_tables, linked
         ntables : Nat,                     \* nfree_tables
         free : [Tables -> Links(Ks, 0)],   \* each table's free trampolines
         nfree : [Tables -> 0 .. NTramp]]   \* nfree of each table

EmptyPool ==
  [mapped |-> {},
   tables |-> [head |-> NULL, prev |-> [t \in Tables |-> NULL],
               next |-> [t \in Tables |-> NULL]],
   ntables |-> 0,
   free |-> [t \in Tables |-> [head |-> 0, prev |-> [k \in Ks |-> 0],
                               next |-> [k \in Ks |-> 0]]],
   nfree |-> [t \in Tables |-> 0]]

\* tramp_table_add and tramp_table_del.
TableAdd(p, t) == [p EXCEPT !.tables = PushLink(@, t, NULL), !.ntables = @ + 1]
TableDel(p, t) == [p EXCEPT !.tables = Unlink(@, t, NULL), !.ntables = @ - 1]

\* tramp_table_free: what the table contained means nothing now.
TableFree(p, t) == [p EXCEPT !.mapped = @ \ {t}, !.nfree[t] = 0,
                             !.free[t] = EmptyPool.free[t]]

\* The free list after the loop of tramp_table_alloc has pushed 1 .. NTramp.
FullList == [head |-> NTramp,
             prev |-> [k \in Ks |-> IF k = NTramp THEN 0 ELSE k + 1],
             next |-> [k \in Ks |-> k - 1]]

\* tramp_table_alloc when there is no table with a free trampoline.
TableAlloc(p, t) ==
  TableAdd([p EXCEPT !.mapped = @ \cup {t}, !.free[t] = FullList,
                     !.nfree[t] = NTramp], t)

\* Mutant: tramp_del leaves the trampoline in the list.
TrampDelLeaves(p, t, k) == [p EXCEPT !.nfree[t] = @ - 1]

\* tramp_del on the k-th trampoline of t.
TrampDel(p, t, k) ==
  LET q == [p EXCEPT !.nfree[t] = @ - 1, !.free[t] = Unlink(@, k, 0)]
  IN  IF q.nfree[t] = 0 THEN TableDel(q, t) ELSE q

\* Mutants: tables are never freed, or as soon as another has room.
TooMany(p, t) == FALSE
AnyOther(p, t) == p.ntables > 1

\* "We don't want to keep too many free trampoline tables lying around."
Idle(p, t) == p.nfree[t] = NTramp /\ p.ntables > 1

\* tramp_add on the k-th trampoline of t.
TrampAdd(p, t, k) ==
  LET q == [p EXCEPT !.free[t] = PushLink(@, k, 0), !.nfree[t] = @ + 1]
      r == IF q.nfree[t] = 1 THEN TableAdd(q, t) ELSE q
  IN  IF Idle(r, t) THEN TableFree(TableDel(r, t), t) ELSE r

-----------------------------------------------------------------------------
(* The functions.  pc[c] is the next call that the thread working on       *)
(* closure c makes.                                                        *)

\* ffi_tramp_init comes to a decision: not before, and not when one page is
\* larger than the whole trampoline code.
Undecided == status = "uninitialized" /\ (platform.arch => platform.pageFits)

\* ffi_tramp_init; the trampoline file may or may not be found and mapped.
TrampInit ==
  \/ /\ ~Undecided
     /\ UNCHANGED <<status, pool>>
  \/ /\ Undecided
     /\ status' = "failed"
     /\ UNCHANGED pool
  \/ /\ Undecided /\ platform.arch
     /\ status' = "passed"
     /\ \E t \in Tables : pool' = TableAlloc(EmptyPool, t)

\* A thread that is in none of the functions can enter one.
Entering == Cardinality({c \in Closures : pc[c] \notin {"free", "ready"}}) < MaxBusy

\* ffi_closure_alloc: dlmalloc found a chunk; ffi_tramp_is_supported.
AllocChunk(c) ==
  /\ pc[c] = "free" /\ Entering
  /\ TrampInit
  /\ IF status' = "passed"
     THEN pc' = [pc EXCEPT ![c] = "ffi_tramp_alloc"] /\ UNCHANGED code
     ELSE /\ pc' = [pc EXCEPT ![c] = "ready"]
          /\ code' = [code EXCEPT ![c] = c]
  /\ UNCHANGED <<platform, parm, ftramp>>

\* ffi_tramp_alloc.  A new table's parameters are fresh anonymous memory.
TakeTramp(c) ==
  /\ pc[c] = "ffi_tramp_alloc"
  /\ \E t \in Tables :
       LET fresh == pool.ntables = 0
           p == IF fresh THEN TableAlloc(pool, t) ELSE pool
           k == p.free[t].head
       IN /\ IF fresh THEN t \notin pool.mapped ELSE t = pool.tables.head
          /\ pool' = TrampDel(p, t, k)
          /\ ftramp' = [ftramp EXCEPT ![c] = <<t, k>>]
          /\ parm' = [s \in Slots |-> IF fresh /\ s[1] = t THEN NULL ELSE parm[s]]
  /\ pc' = [pc EXCEPT ![c] = "ffi_tramp_get_addr"]
  /\ UNCHANGED <<platform, status, code>>

\* No table can be mapped: dlfree, and ffi_closure_alloc returns NULL.
NoTramp(c) ==
  /\ pc[c] = "ffi_tramp_alloc"
  /\ pool.ntables = 0
  /\ pc' = [pc EXCEPT ![c] = "free"]
  /\ UNCHANGED <<platform, status, pool, parm, ftramp, code>>

GetAddr(c) ==
  /\ pc[c] = "ffi_tramp_get_addr"
  /\ code' = [code EXCEPT ![c] = ftramp[c]]
  /\ pc' = [pc EXCEPT ![c] = "ffi_tramp_set_parms"]
  /\ UNCHANGED <<platform, status, pool, parm, ftramp>>

\* The prepare function.  That of raw_api.c ends in ffi_prep_closure_loc,
\* which finds ffi_tramp_is_present.  That of x86/ffi.c writes instructions to
\* the closure itself, over the ftramp field that shares a union with them.
SetParms(c) ==
  /\ pc[c] = "ffi_tramp_set_parms"
  /\ IF NativeRaw
     THEN ftramp' = [ftramp EXCEPT ![c] = NULL] /\ UNCHANGED parm
     ELSE parm' = [parm EXCEPT ![ftramp[c]] = c] /\ UNCHANGED ftramp
  /\ pc' = [pc EXCEPT ![c] = "ready"]
  /\ UNCHANGED <<platform, status, pool, code>>

\* ffi_closure_free: ffi_tramp_is_supported, which has decided or cannot
\* decide by now, and ffi_tramp_free, whose behaviour on an overwritten ftramp
\* is undefined: the model stops there.
FreeTramp(c) ==
  /\ pc[c] = "ready" /\ Entering
  /\ status = "passed" => ftramp[c] # NULL
  /\ pool' = IF status = "passed" THEN TrampAdd(pool, ftramp[c][1], ftramp[c][2])
                                  ELSE pool
  /\ pc' = [pc EXCEPT ![c] = "dlfree"]
  /\ UNCHANGED <<platform, status, parm, ftramp, code>>

\* dlfree: what the chunk contained, ftramp included, means nothing now.
FreeChunk(c) ==
  /\ pc[c] = "dlfree"
  /\ pc' = [pc EXCEPT ![c] = "free"]
  /\ ftramp' = [ftramp EXCEPT ![c] = NULL]
  /\ code' = [code EXCEPT ![c] = NULL]
  /\ UNCHANGED <<platform, status, pool, parm>>

-----------------------------------------------------------------------------
Init ==
  /\ platform \in [arch : BOOLEAN, pageFits : BOOLEAN]
  /\ status = "uninitialized"
  /\ pool = EmptyPool
  /\ parm = [s \in Slots |-> NULL]
  /\ pc = [c \in Closures |-> "free"]
  /\ ftramp = [c \in Closures |-> NULL]
  /\ code = [c \in Closures |-> NULL]

Next ==
  \E c \in Closures :
    \/ AllocChunk(c) \/ TakeTramp(c) \/ NoTramp(c) \/ GetAddr(c) \/ SetParms(c)
    \/ FreeTramp(c) \/ FreeChunk(c)

Spec == Init /\ [][Next]_vars

-----------------------------------------------------------------------------
(* What static trampolines promise.                                        *)

TypeOK ==
  /\ platform \in [arch : BOOLEAN, pageFits : BOOLEAN]
  /\ status \in {"uninitialized", "passed", "failed"}
  /\ pool \in Pool
  /\ parm \in [Slots -> Closures \cup {NULL}]
  /\ pc \in [Closures -> {"free", "ffi_tramp_alloc", "ffi_tramp_get_addr",
                          "ffi_tramp_set_parms", "ready", "dlfree"}]
  /\ ftramp \in [Closures -> Slots \cup {NULL}]
  /\ code \in [Closures -> Slots \cup Closures \cup {NULL}]

\* Closure c has a trampoline of its own.
Holds(c) == /\ status = "passed"
            /\ pc[c] \in {"ffi_tramp_get_addr", "ffi_tramp_set_parms", "ready"}

\* The trampolines of t that no closure holds.
FreeOf(t) == {k \in Ks : \A c \in Closures : Holds(c) => ftramp[c] # <<t, k>>}

\* l is a list of the n elements of S, linked both ways.
IsList(l, S, n, null) ==
  \E s \in [1 .. n -> S] :
    /\ \A x \in S : \E i \in 1 .. n : s[i] = x
    /\ \A i, j \in 1 .. n : s[i] = s[j] => i = j
    /\ l.head = IF n = 0 THEN null ELSE s[1]
    /\ \A i \in 1 .. n : /\ l.next[s[i]] = IF i = n THEN null ELSE s[i + 1]
                         /\ l.prev[s[i]] = IF i = 1 THEN null ELSE s[i - 1]

\* Both levels of lists and their counters are exact after every function:
\* each table lists its unheld trampolines and no other, and the global list
\* holds exactly the tables that have one (tramp_add, tramp_del). The state has
\* its types.
ListsExact ==
  /\ TypeOK
  /\ \A t \in pool.mapped : IsList(pool.free[t], FreeOf(t), pool.nfree[t], 0)
  /\ IsList(pool.tables, {t \in pool.mapped : FreeOf(t) # {}}, pool.ntables, NULL)

\* However closures come and go, at most one table lies around wholly free
\* (tramp_add, tramp_table_alloc).
OneIdleTable ==
  \A t, u \in pool.mapped :
    pool.nfree[t] = NTramp /\ pool.nfree[u] = NTramp => t = u

\* The code address of a prepared closure stays mapped and enters that
\* closure, whatever tables other threads free meanwhile.
EntersOwner ==
  \A c \in Closures :
    Holds(c) /\ pc[c] = "ready" =>
      /\ code[c][1] \in pool.mapped
      /\ parm[code[c]] = c

\* Two closures never share a trampoline, and one is bound to its closure
\* until that closure gives it back: the implementation of TrampPool.
Promise == INSTANCE TrampPool WITH
  slot <- [c \in Closures |-> IF Holds(c) THEN ftramp[c] ELSE NULL],
  enters <- [s \in Slots |->
               IF \E c \in Closures : Holds(c) /\ pc[c] = "ready" /\ ftramp[c] = s
               THEN parm[s] ELSE NULL]
PoolSpec == Promise!Spec
=============================================================================
