------------------------------- MODULE FfiApi -------------------------------
(***************************************************************************)
(* The JavaScript FFI module (lib/ffi.js) and the native binding it drives *)
(* (src/node_ffi.cc), as one isolate of one process runs them.             *)
(*                                                                         *)
(* Every object of Objs is at most one JavaScript wrapper: a library       *)
(* (dlopen), a function pointer (UnsafeFnPointer) or a callback            *)
(* (UnsafeCallback).  The FFILibrary or FFICallback a wrapper holds in its *)
(* private field is named after the wrapper, and the k-th FFIInvoker it    *)
(* creates is <<o, k>>: no native object is ever named twice, so a reuse   *)
(* of freed memory is always visible as one.                               *)
(*                                                                         *)
(* The program may do whatever JavaScript lets it do: keep a function of a *)
(* library it dropped, close twice, close a callback that is running.  A   *)
(* native access to memory or code that is gone sets `fault' and stops the *)
(* model; the properties say which program behaviour can lead there.       *)
(***************************************************************************)
EXTENDS Integers, Sequences

CONSTANTS
  Objs,       \* names of the wrapper objects
  Paths,      \* files that LoadLibrary can open
  Plain,      \* argument values that are not callback pointers
  Zero,       \* the value an argument slot starts with
  NULL,       \* the null address
  DefMaps,    \* the symbol tables that programs pass to dlopen
  MaxSyms,    \* most symbols in a table
  MaxArgs,    \* most arguments of a call
  MaxDepth,   \* most frames on the call stack
  MaxTimers   \* most intervals at a time

\* One entry of a symbol table: whether the library has the symbol, whether
\* it is optional, whether parseType knows all its types, and its parameters.
Entry == [found : BOOLEAN, optional : BOOLEAN, typed : BOOLEAN,
          nargs : 0 .. MaxArgs]

ASSUME ApiAssumption ==
  /\ Zero \in Plain
  /\ NULL \notin Objs
  /\ Plain \cap Objs = {}
  /\ MaxSyms \in Nat \ {0} /\ MaxArgs \in Nat /\ MaxDepth \in Nat /\ MaxTimers \in Nat
  /\ \A d \in DefMaps : d \in Seq(Entry) /\ Len(d) <= MaxSyms

VARIABLES
  kind,      \* what each object is; "failed": its constructor threw
  held,      \* objects the program still references
  collected, \* objects the garbage collector has reclaimed
  closes,    \* how often the program called close() on each object
  native,    \* the FFILibrary or FFICallback behind each object
  path,      \* the file behind each library
  invoker,   \* the FFIInvokers
  nargs,     \* cif.nargs of each invoker
  target,    \* what each invoker calls: a library's or a callback's code
  datas,     \* the argument slots of each invoker
  cells,     \* invokers registered in gcInvoker whose refer is alive
  cleanup,   \* invokers whose refer died, waiting for FreeInvoker
  given,     \* callbacks whose code pointer native code has seen
  timer,     \* #timeout of each callback, 0 when it has none
  intervals, \* active intervals of the event loop
  stack,     \* native and JavaScript frames, innermost last
  fault      \* the first illegal native access and the object behind it

vars == <<kind, held, collected, closes, native, path, invoker, nargs, target,
          datas, cells, cleanup, given, timer, intervals, stack, fault>>

objVars == <<kind, held, collected, path>>
invVars == <<invoker, nargs, target, datas, cells, cleanup>>
timerVars == <<timer, intervals>>

Invs == Objs \X (1 .. MaxSyms)
Owner(i) == i[1]
Vals == Plain \cup Objs
Timers == 1 .. MaxTimers
MaxCloses == 2

FaultKinds == {"none", "nullLibrary", "freedInvoker", "extraArgument",
               "nullAddress", "unmappedCode", "freedCallback", "freedTwice"}
NoFault == [kind |-> "none", obj |-> NULL]
NativeFrame == [k : {"native"}, inv : Invs, entered : BOOLEAN]
JsFrame == [k : {"js"}, cb : Objs]

-----------------------------------------------------------------------------
(* Who runs.                                                               *)

Top == stack[Len(stack)]
Pop == SubSeq(stack, 1, Len(stack) - 1)
JsRunning == fault = NoFault /\ (stack # <<>> => Top.k = "js")
NativeRunning == fault = NoFault /\ stack # <<>> /\ Top.k = "native"

Fault(what, o) == fault' = [kind |-> what, obj |-> o]

\* The loader maps a file once: its code stays while any handle is open.
Mapped(o) == \E p \in Objs : /\ kind[p] \in {"library", "failed"}
                             /\ native[p] = "live" /\ path[p] = path[o]

-----------------------------------------------------------------------------
(* dlopen: the constructor of UnsafeLibrary.                               *)

\* The loop over defMap stops at the first entry that throws.
Throws(e) == IF e.found THEN ~e.typed ELSE ~e.optional
Visited(d) == {k \in DOMAIN d : \A j \in 1 .. k - 1 : ~Throws(d[j])}
Created(d) == {k \in Visited(d) : d[k].found /\ d[k].typed}

\* Mutant: a registry that is a map from refers keeps the last cell only.
LastCellOnly(o, ks) == {o} \X {k \in ks : \A j \in ks : j <= k}

\* gcInvoker.register(refer, invoker, refer), once per invoker.
NewCells(o, ks) == {o} \X ks

\* createInvoker: the new FFIInvokers of o, registered under refer o.
CreateInvokers(o, ks, n, t) ==
  LET new == {o} \X ks IN
  /\ invoker' = [i \in Invs |-> IF i \in new THEN "live" ELSE invoker[i]]
  /\ nargs' = [i \in Invs |-> IF i \in new THEN n[i[2]] ELSE nargs[i]]
  /\ target' = [i \in Invs |-> IF i \in new THEN t ELSE target[i]]
  /\ datas' = [i \in Invs |-> IF i \in new THEN [a \in 1 .. n[i[2]] |-> Zero]
                                           ELSE datas[i]]
  /\ cells' = cells \cup NewCells(o, ks)
  /\ UNCHANGED cleanup

Dlopen(o, p, d) ==
  LET failed == \E k \in DOMAIN d : Throws(d[k]) IN
  /\ JsRunning
  /\ kind[o] = "unborn"
  /\ kind' = [kind EXCEPT ![o] = IF failed THEN "failed" ELSE "library"]
  /\ held' = IF failed THEN held ELSE held \cup {o}
  /\ native' = [native EXCEPT ![o] = "live"]
  /\ path' = [path EXCEPT ![o] = p]
  /\ CreateInvokers(o, Created(d), [k \in Created(d) |-> d[k].nargs], o)
  /\ UNCHANGED <<collected, closes, given, timerVars, stack, fault>>

\* LoadLibrary returned undefined and the constructor does not look: the
\* first FindSymbol follows a null pointer; with no symbols nothing happens.
DlopenNoFile(o, d) ==
  /\ JsRunning
  /\ kind[o] = "unborn"
  /\ IF d = <<>>
     THEN /\ kind' = [kind EXCEPT ![o] = "library"]
          /\ held' = held \cup {o}
          /\ UNCHANGED fault
     ELSE Fault("nullLibrary", o) /\ UNCHANGED <<kind, held>>
  /\ UNCHANGED <<collected, closes, native, path, invVars, given, timerVars,
                 stack>>

\* new UnsafeFnPointer(pointer, defObj), on a callback's code pointer or null.
NewFnPointer(o, t, n) ==
  /\ JsRunning
  /\ kind[o] = "unborn"
  /\ t # NULL => kind[t] = "callback"
  /\ kind' = [kind EXCEPT ![o] = "fnptr"]
  /\ held' = held \cup {o}
  /\ CreateInvokers(o, {1}, [k \in {1} |-> n], t)
  /\ UNCHANGED <<collected, closes, native, path, given, timerVars, stack, fault>>

\* new UnsafeCallback(defObj, callback).
NewCallback(o) ==
  /\ JsRunning
  /\ kind[o] = "unborn"
  /\ kind' = [kind EXCEPT ![o] = "callback"]
  /\ held' = held \cup {o}
  /\ native' = [native EXCEPT ![o] = "live"]
  /\ UNCHANGED <<collected, closes, path, invVars, given, timerVars, stack,
                 fault>>

-----------------------------------------------------------------------------
(* Calls.  The arrow function of createInvoker closes over the invoker and *)
(* not over its refer: the program can call it after dropping the refer.   *)

\* setParam for every argument: the slots past the last argument keep what
\* an earlier call left there.
SetParams(i, args) ==
  [a \in 1 .. nargs[i] |-> IF a <= Len(args) THEN args[a] ELSE datas[i][a]]

CallFault(i, args) ==
  IF invoker[i] = "freed" THEN "freedInvoker"
  ELSE IF Len(args) > nargs[i] THEN "extraArgument"
  ELSE IF target[i] = NULL THEN "nullAddress"
  ELSE IF kind[target[i]] = "library" /\ ~Mapped(target[i]) THEN "unmappedCode"
  ELSE "none"

CallInvoker(i, args) ==
  /\ JsRunning
  /\ Len(stack) < MaxDepth
  /\ kind[Owner(i)] \in {"library", "fnptr"}
  /\ invoker[i] # "none"
  /\ IF CallFault(i, args) # "none"
     THEN /\ Fault(CallFault(i, args), Owner(i))
          /\ UNCHANGED <<datas, given, stack>>
     ELSE /\ datas' = [datas EXCEPT ![i] = SetParams(i, args)]
          /\ given' = given \cup
               {c \in Objs : \E a \in DOMAIN SetParams(i, args) :
                               SetParams(i, args)[a] = c}
          /\ stack' = Append(stack, [k |-> "native", inv |-> i, entered |-> FALSE])
          /\ UNCHANGED fault
  /\ UNCHANGED <<objVars, closes, native, invoker, nargs, target, cells,
                 cleanup, timerVars>>

\* The native function returns and doInvoke wraps the result.  An invoker on
\* a callback's own code pointer returns once that callback has run.
NativeReturn ==
  /\ NativeRunning
  /\ kind[target[Top.inv]] = "library" \/ Top.entered
  /\ IF invoker[Top.inv] = "freed"
     THEN Fault("freedInvoker", Owner(Top.inv)) /\ UNCHANGED stack
     ELSE stack' = Pop /\ UNCHANGED fault
  /\ UNCHANGED <<objVars, closes, native, invVars, given, timerVars>>

\* Native code enters a callback: one whose pointer it was given, at any
\* time, or the one it is the trampoline of.
DoCallback(c) ==
  LET t == target[Top.inv] IN
  /\ NativeRunning
  /\ Len(stack) < MaxDepth
  /\ IF kind[t] = "library" THEN c \in given ELSE t = c /\ ~Top.entered
  /\ IF native[c] = "freed"
     THEN Fault("freedCallback", c) /\ UNCHANGED stack
     ELSE /\ stack' = Append([stack EXCEPT ![Len(stack)].entered = TRUE],
                             [k |-> "js", cb |-> c])
          /\ UNCHANGED fault
  /\ UNCHANGED <<objVars, closes, native, invVars, given, timerVars>>

\* Back in native code, whose library may have been closed meanwhile.
ResumeNative ==
  LET caller == stack[Len(stack) - 1].inv IN
  IF kind[target[caller]] = "library" /\ ~Mapped(target[caller])
  THEN Fault("unmappedCode", Owner(caller)) /\ UNCHANGED stack
  ELSE stack' = Pop /\ UNCHANGED fault

\* The callback function returned: readValue(0, ...) looks at the types of
\* the FFICallback again.
CallbackReturn ==
  /\ JsRunning
  /\ stack # <<>>
  /\ IF native[Top.cb] = "freed"
     THEN Fault("freedCallback", Top.cb) /\ UNCHANGED stack
     ELSE ResumeNative
  /\ UNCHANGED <<objVars, closes, native, invVars, given, timerVars>>

\* The callback function threw: doCallback leaves the result alone.
CallbackThrow ==
  /\ JsRunning
  /\ stack # <<>>
  /\ ResumeNative
  /\ UNCHANGED <<objVars, closes, native, invVars, given, timerVars>>

-----------------------------------------------------------------------------
(* close(), ref() and unref().                                             *)

\* FreeLibrary and FreeCallback delete what the private field points to.
Close(o) ==
  /\ JsRunning
  /\ o \in held
  /\ kind[o] \in {"library", "callback"}
  /\ closes[o] < MaxCloses
  /\ closes' = [closes EXCEPT ![o] = @ + 1]
  /\ IF native[o] = "freed"
     THEN Fault("freedTwice", o) /\ UNCHANGED native
     ELSE /\ native' = [native EXCEPT ![o] = IF @ = "none" THEN @ ELSE "freed"]
          /\ UNCHANGED fault
  /\ UNCHANGED <<objVars, invVars, given, timerVars, stack>>

\* Mutant: ref() does not look at #timeout.
AlwaysNeedsInterval(o) == TRUE

NeedsInterval(o) == timer[o] = 0

Ref(o) ==
  /\ JsRunning
  /\ o \in held
  /\ kind[o] = "callback"
  /\ NeedsInterval(o)
  /\ \E t \in Timers \ intervals :
        /\ timer' = [timer EXCEPT ![o] = t]
        /\ intervals' = intervals \cup {t}
  /\ UNCHANGED <<objVars, closes, native, invVars, given, stack, fault>>

Unref(o) ==
  /\ JsRunning
  /\ o \in held
  /\ kind[o] = "callback"
  /\ timer[o] # 0
  /\ intervals' = intervals \ {timer[o]}
  /\ timer' = [timer EXCEPT ![o] = 0]
  /\ UNCHANGED <<objVars, closes, native, invVars, given, stack, fault>>

-----------------------------------------------------------------------------
(* Garbage collection.                                                     *)

\* The program lets go of its last reference to the wrapper.
Drop(o) ==
  /\ JsRunning
  /\ o \in held
  /\ held' = held \ {o}
  /\ UNCHANGED <<kind, collected, closes, native, path, invVars, given,
                 timerVars, stack, fault>>

\* Mutant: the cells of one refer are not told from those of another.
AllCells(o) == cells

\* The cells whose refer is o.
CellsOf(o) == {i \in cells : Owner(i) = o}

\* The collector may run at any allocation, under any stack; the registry
\* then queues FreeInvoker for every cell of the dead refer.
Collect(o) ==
  /\ fault = NoFault
  /\ kind[o] # "unborn" /\ o \notin held /\ o \notin collected
  /\ collected' = collected \cup {o}
  /\ cells' = cells \ CellsOf(o)
  /\ cleanup' = cleanup \cup CellsOf(o)
  /\ UNCHANGED <<kind, held, closes, native, path, invoker, nargs, target,
                 datas, given, timerVars, stack, fault>>

\* Mutant: the registry calls back as soon as the refer is collected.
TaskAnyTime == TRUE

\* The registry's callback is a task: it runs when no JavaScript does.
TaskCanRun == stack = <<>>

FreeInvoker(i) ==
  /\ fault = NoFault
  /\ TaskCanRun
  /\ i \in cleanup
  /\ cleanup' = cleanup \ {i}
  /\ IF invoker[i] = "freed"
     THEN Fault("freedTwice", Owner(i)) /\ UNCHANGED invoker
     ELSE invoker' = [invoker EXCEPT ![i] = "freed"] /\ UNCHANGED fault
  /\ UNCHANGED <<objVars, closes, native, nargs, target, datas, cells, given,
                 timerVars, stack>>

-----------------------------------------------------------------------------
Init ==
  /\ kind = [o \in Objs |-> "unborn"]
  /\ held = {} /\ collected = {}
  /\ closes = [o \in Objs |-> 0]
  /\ native = [o \in Objs |-> "none"]
  /\ path = [o \in Objs |-> NULL]
  /\ invoker = [i \in Invs |-> "none"]
  /\ nargs = [i \in Invs |-> 0]
  /\ target = [i \in Invs |-> NULL]
  /\ datas = [i \in Invs |-> <<>>]
  /\ cells = {} /\ cleanup = {} /\ given = {}
  /\ timer = [o \in Objs |-> 0] /\ intervals = {}
  /\ stack = <<>>
  /\ fault = NoFault

\* The argument lists a program can pass: plain values and callback pointers.
Args == UNION {[1 .. n -> Plain \cup {c \in Objs : kind[c] = "callback"}] :
                 n \in 0 .. MaxArgs}

Next ==
  \/ \E o \in Objs :
       \/ \E d \in DefMaps : DlopenNoFile(o, d) \/ \E p \in Paths : Dlopen(o, p, d)
       \/ \E t \in Objs \cup {NULL}, n \in 0 .. MaxArgs : NewFnPointer(o, t, n)
       \/ NewCallback(o)
       \/ DoCallback(o)
       \/ Close(o) \/ Ref(o) \/ Unref(o) \/ Drop(o) \/ Collect(o)
  \/ \E i \in Invs : FreeInvoker(i) \/ \E args \in Args : CallInvoker(i, args)
  \/ NativeReturn \/ CallbackReturn \/ CallbackThrow

\* The event loop gets to every queued cleanup if the stack keeps emptying.
Spec == Init /\ [][Next]_vars
FairSpec == Spec /\ \A i \in Invs : SF_vars(FreeInvoker(i))

-----------------------------------------------------------------------------
(* What the module promises.                                               *)

TypeOK ==
  /\ kind \in [Objs -> {"unborn", "library", "fnptr", "callback", "failed"}]
  /\ held \subseteq Objs /\ collected \subseteq Objs
  /\ closes \in [Objs -> 0 .. MaxCloses]
  /\ native \in [Objs -> {"none", "live", "freed"}]
  /\ path \in [Objs -> Paths \cup {NULL}]
  /\ invoker \in [Invs -> {"none", "live", "freed"}]
  /\ nargs \in [Invs -> 0 .. MaxArgs]
  /\ target \in [Invs -> Objs \cup {NULL}]
  /\ datas \in [Invs -> Seq(Vals)]
  /\ \A i \in Invs : Len(datas[i]) = nargs[i]
  /\ cells \subseteq Invs /\ cleanup \subseteq Invs /\ given \subseteq Objs
  /\ timer \in [Objs -> Timers \cup {0}] /\ intervals \subseteq Timers
  /\ stack \in Seq(NativeFrame \cup JsFrame)
  /\ fault \in [kind : FaultKinds, obj : Objs \cup {NULL}]

\* An illegal access never comes out of the blue.  A freed FFIInvoker is only
\* reached through a function whose library or pointer object the program
\* dropped, freed callbacks and unmapped code only after the program called
\* close() on that object, and nothing is freed twice unless close() was
\* called twice: the finalizers on their own never free an invoker too early
\* or a second time (createInvoker, gcInvoker, close in ffi.js).
FaultsHaveCauses ==
  LET o == fault.obj IN
  /\ fault.kind = "freedInvoker" => o \notin held
  /\ fault.kind \in {"freedCallback", "unmappedCode"} => closes[o] >= 1
  /\ fault.kind = "freedTwice" => closes[o] = 2

\* While a native function runs, the FFIInvoker that doInvoke will use to
\* wrap its result is alive, whatever was collected meanwhile.
RunningInvokersLive ==
  \A n \in DOMAIN stack :
    stack[n].k = "native" => invoker[stack[n].inv] = "live"

\* Collecting a wrapper, a failed constructor's included, never strands one
\* of its invokers: each is freed already or its FreeInvoker is queued.
NoInvokerLeak ==
  \A i \in Invs :
    invoker[i] = "live" /\ Owner(i) \in collected => i \in cleanup

\* Every interval that keeps the event loop alive is the #timeout of exactly
\* one callback, so unref() on every callback lets the process end.
KeepAliveExact ==
  /\ intervals = {timer[o] : o \in Objs} \ {0}
  /\ \A o, p \in Objs : timer[o] = timer[p] /\ timer[o] # 0 => o = p

\* If the stack keeps emptying, all invokers of a collected wrapper are freed.
InvokersReclaimed ==
  []<>(stack = <<>>) =>
    \A i \in Invs : (invoker[i] = "live" /\ Owner(i) \in collected)
                      ~> (invoker[i] = "freed" \/ fault # NoFault)
=============================================================================
