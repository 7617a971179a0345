---------------------------- MODULE FfiApi_proof ----------------------------
(***************************************************************************)
(* FfiApi for any number of wrappers, symbols, arguments and frames: the   *)
(* type invariant, and that no illegal access happens without the program  *)
(* having caused it.                                                       *)
(***************************************************************************)
EXTENDS FfiApi, TLAPS, SequenceTheorems

\* An unborn wrapper owns nothing yet; only close() frees a native object,
\* and what the program still holds is not collected.
Lifecycle ==
  \A o \in Objs :
    /\ kind[o] = "unborn" => /\ native[o] = "none" /\ closes[o] = 0
                             /\ o \notin held /\ o \notin collected
                             /\ \A k \in 1 .. MaxSyms : invoker[<<o, k>>] = "none"
    /\ native[o] = "freed" => closes[o] >= 1
    /\ o \in held => o \notin collected

\* A live invoker is in exactly one of cells and cleanup, in cells while its
\* refer is uncollected; a freed one is in neither.
Registry ==
  \A i \in Invs :
    /\ i \in cells => invoker[i] = "live" /\ Owner(i) \notin collected
    /\ i \in cleanup => invoker[i] = "live" /\ Owner(i) \in collected
    /\ invoker[i] = "live" => i \in cells \cup cleanup
    /\ invoker[i] = "freed" => Owner(i) \in collected

\* An invoker calls its own library, a callback, or null.
Targets ==
  \A i \in Invs :
    invoker[i] # "none" /\ target[i] # NULL =>
      \/ target[i] = Owner(i) /\ kind[Owner(i)] \in {"library", "failed"}
         /\ native[Owner(i)] # "none"
      \/ kind[target[i]] = "callback"

\* Callbacks run on top of the native function that entered them, and every
\* running native function has a live invoker and somewhere to run.
Frames ==
  \A n \in DOMAIN stack :
    /\ stack[n].k = "native" =>
         invoker[stack[n].inv] = "live" /\ target[stack[n].inv] # NULL
    /\ stack[n].k = "js" => n > 1 /\ stack[n - 1].k = "native"

IInv == /\ TypeOK /\ Lifecycle /\ Registry /\ Targets /\ Frames
        /\ FaultsHaveCauses

-----------------------------------------------------------------------------
\* What the assumption says of the scalar constants.
LEMMA Bounds == /\ Zero \in Plain /\ NULL \notin Objs
                /\ MaxSyms \in Nat \ {0} /\ MaxArgs \in Nat
BY ApiAssumption DEF ApiAssumption

\* At the start nothing exists, so the invariant holds.
LEMMA InitIInv == Init => IInv
<1> SUFFICES ASSUME Init PROVE IInv
  OBVIOUS
<1> USE Bounds
<1>1. TypeOK
  BY DEF Init, TypeOK, Invs, Timers, MaxCloses, NoFault, FaultKinds
<1>2. Lifecycle /\ Registry /\ Targets /\ Frames /\ FaultsHaveCauses
  BY DEF Init, Lifecycle, Registry, Targets, Frames, FaultsHaveCauses, NoFault, Invs, Owner
<1> QED BY <1>1, <1>2 DEF IInv

\* createInvoker keeps the typing of the invokers.
LEMMA CreateInvokersType ==
  ASSUME TypeOK, NEW o \in Objs, NEW ks \in SUBSET (1 .. MaxSyms), NEW n, NEW t \in Objs \cup {NULL},
         \A k \in ks : n[k] \in 0 .. MaxArgs,
         CreateInvokers(o, ks, n, t)
  PROVE  /\ invoker' \in [Invs -> {"none", "live", "freed"}]
         /\ nargs' \in [Invs -> 0 .. MaxArgs]
         /\ target' \in [Invs -> Objs \cup {NULL}]
         /\ datas' \in [Invs -> Seq(Vals)] /\ \A i \in Invs : Len(datas'[i]) = nargs'[i]
         /\ cells' \subseteq Invs /\ cleanup' \subseteq Invs
<1> USE Bounds
<1>1. \A i \in {o} \X ks : i \in Invs /\ i[2] \in ks
  BY DEF Invs
<1>2. invoker' \in [Invs -> {"none", "live", "freed"}] /\ target' \in [Invs -> Objs \cup {NULL}]
  BY DEF CreateInvokers, TypeOK
<1>3. nargs' \in [Invs -> 0 .. MaxArgs]
  BY <1>1 DEF CreateInvokers, TypeOK
<1>4. datas' \in [Invs -> Seq(Vals)]
  <2>1. ASSUME NEW m \in 0 .. MaxArgs PROVE [a \in 1 .. m |-> Zero] \in Seq(Vals)
    <3>1. Zero \in Vals BY DEF Vals
    <3> QED BY <2>1, <3>1, IsASeq
  <2> QED BY <2>1, <1>1 DEF CreateInvokers, TypeOK
<1>6. \A i \in Invs : Len(datas'[i]) = nargs'[i]
  <2> SUFFICES ASSUME NEW i \in Invs PROVE Len(datas'[i]) = nargs'[i]
    OBVIOUS
  <2>1. CASE i \in {o} \X ks
    <3>1. datas'[i] = [a \in 1 .. n[i[2]] |-> Zero] /\ nargs'[i] = n[i[2]]
      BY <2>1 DEF CreateInvokers
    <3>2. i[2] \in ks
      BY <2>1
    <3>3. n[i[2]] \in Nat
      <4>1. n[i[2]] \in 0 .. MaxArgs
        BY <3>2, Zenon
      <4> QED BY <4>1
    <3> QED BY <3>1, <3>3
  <2>2. CASE i \notin {o} \X ks
    BY <2>2 DEF CreateInvokers, TypeOK
  <2> QED BY <2>1, <2>2
<1>5. cells' \subseteq Invs /\ cleanup' \subseteq Invs
  BY <1>1 DEF CreateInvokers, TypeOK, NewCells
<1> QED BY <1>2, <1>3, <1>4, <1>5, <1>6

\* Removing the innermost frame leaves the others where they are.
LEMMA PopProperties ==
  ASSUME TypeOK, stack # <<>>
  PROVE  /\ Pop \in Seq(NativeFrame \cup JsFrame)
         /\ Len(Pop) = Len(stack) - 1
         /\ \A n \in 1 .. Len(Pop) : Pop[n] = stack[n]
<1>1. stack \in Seq(NativeFrame \cup JsFrame) /\ Len(stack) \in Nat \ {0}
  BY EmptySeq DEF TypeOK
<1>2. \A n \in 1 .. Len(stack) - 1 : stack[n] \in NativeFrame \cup JsFrame
  BY <1>1
<1>3. \A n \in 1 .. Len(stack) - 1 : SubSeq(stack, 1, Len(stack) - 1)[n] = stack[n]
  BY <1>1, <1>2, SubSeqProperties
<1>4. SubSeq(stack, 1, Len(stack) - 1) \in Seq(NativeFrame \cup JsFrame)
  BY <1>1, <1>2, SubSeqProperties
<1>5. Len(SubSeq(stack, 1, Len(stack) - 1)) = Len(stack) - 1
  <2> DEFINE m == Len(stack) - 1
  <2>1. m \in Nat /\ Len(SubSeq(stack, 1, m)) = IF 1 <= m THEN m - 1 + 1 ELSE 0
    BY <1>1, <1>2, SubSeqProperties
  <2> HIDE DEF m
  <2>2. Len(SubSeq(stack, 1, m)) = m
    BY <2>1
  <2> QED BY <2>2 DEF m
<1> QED BY <1>1, <1>3, <1>4, <1>5 DEF Pop

\* Recording a fault keeps fault in its type.
LEMMA FaultType ==
  ASSUME NEW what \in FaultKinds, NEW o \in Objs, Fault(what, o)
  PROVE  fault' \in [kind : FaultKinds, obj : Objs \cup {NULL}]
BY DEF Fault

\* Every step keeps the variables in their types.
LEMMA NextType == TypeOK /\ Frames /\ Registry /\ [Next]_vars => TypeOK'
<1> SUFFICES ASSUME TypeOK, Frames, Registry, [Next]_vars PROVE TypeOK'
  OBVIOUS
<1> USE Bounds
<1>1. ASSUME NEW o \in Objs, NEW p \in Paths, NEW d \in DefMaps, Dlopen(o, p, d)
      PROVE  TypeOK'
  <2>1. Created(d) \in SUBSET (1 .. MaxSyms) /\ \A k \in Created(d) : d[k].nargs \in 0 .. MaxArgs
    <3>1. d \in Seq(Entry) /\ Len(d) <= MaxSyms /\ Len(d) \in Nat
      BY ApiAssumption DEF ApiAssumption
    <3>2. \A k \in Created(d) : k \in 1 .. Len(d)
      BY <3>1 DEF Created, Visited
    <3>3. \A k \in 1 .. Len(d) : d[k] \in Entry
      BY <3>1
    <3>4. \A e \in Entry : e.nargs \in 0 .. MaxArgs
      BY DEF Entry
    <3> QED BY <3>1, <3>2, <3>3, <3>4
  <2>2. \A k \in Created(d) : [j \in Created(d) |-> d[j].nargs][k] \in 0 .. MaxArgs
    BY <2>1
  <2>3. /\ invoker' \in [Invs -> {"none", "live", "freed"}]
        /\ nargs' \in [Invs -> 0 .. MaxArgs]
        /\ target' \in [Invs -> Objs \cup {NULL}]
        /\ datas' \in [Invs -> Seq(Vals)] /\ \A i \in Invs : Len(datas'[i]) = nargs'[i]
        /\ cells' \subseteq Invs /\ cleanup' \subseteq Invs
    <3> DEFINE n == [j \in Created(d) |-> d[j].nargs]
    <3>1. CreateInvokers(o, Created(d), n, o)
      BY <1>1 DEF Dlopen
    <3> HIDE DEF n
    <3> QED BY <3>1, <2>1, <2>2, CreateInvokersType DEF n
  <2> QED BY <1>1, <2>3 DEF Dlopen, TypeOK, timerVars
<1>2. ASSUME NEW o \in Objs, NEW d \in DefMaps, DlopenNoFile(o, d)
      PROVE  TypeOK'
  <2>1. fault' \in [kind : FaultKinds, obj : Objs \cup {NULL}]
    BY <1>2, FaultType DEF DlopenNoFile, FaultKinds, TypeOK
  <2>2. /\ kind' \in [Objs -> {"unborn", "library", "fnptr", "callback", "failed"}]
        /\ held' \subseteq Objs
    <3>1. \/ kind' = [kind EXCEPT ![o] = "library"] /\ held' = held \cup {o}
          \/ kind' = kind /\ held' = held
      BY <1>2 DEF DlopenNoFile
    <3>2. held' \subseteq Objs
      BY <3>1 DEF TypeOK
    <3>3. kind' \in [Objs -> {"unborn", "library", "fnptr", "callback", "failed"}]
      BY <3>1 DEF TypeOK
    <3> QED BY <3>2, <3>3
  <2> QED BY <1>2, <2>1, <2>2 DEF DlopenNoFile, TypeOK, timerVars, invVars
<1>3. ASSUME NEW o \in Objs, NEW t \in Objs \cup {NULL}, NEW n \in 0 .. MaxArgs,
             NewFnPointer(o, t, n)
      PROVE  TypeOK'
  <2>1. /\ invoker' \in [Invs -> {"none", "live", "freed"}]
        /\ nargs' \in [Invs -> 0 .. MaxArgs]
        /\ target' \in [Invs -> Objs \cup {NULL}]
        /\ datas' \in [Invs -> Seq(Vals)] /\ \A i \in Invs : Len(datas'[i]) = nargs'[i]
        /\ cells' \subseteq Invs /\ cleanup' \subseteq Invs
    <3> DEFINE f == [k \in {1} |-> n]
    <3>1. CreateInvokers(o, {1}, f, t)
      BY <1>3 DEF NewFnPointer
    <3>2. {1} \in SUBSET (1 .. MaxSyms) /\ \A k \in {1} : f[k] \in 0 .. MaxArgs
      OBVIOUS
    <3> HIDE DEF f
    <3> QED BY <3>1, <3>2, CreateInvokersType
  <2> QED BY <1>3, <2>1 DEF NewFnPointer, TypeOK, timerVars
<1>4. ASSUME NEW o \in Objs, NewCallback(o) PROVE TypeOK'
  BY <1>4 DEF NewCallback, TypeOK, timerVars, invVars
<1>5. ASSUME NEW o \in Objs, Close(o) PROVE TypeOK'
  <2>1. fault' \in [kind : FaultKinds, obj : Objs \cup {NULL}]
    BY <1>5, FaultType DEF Close, FaultKinds, TypeOK
  <2>2. closes' \in [Objs -> 0 .. MaxCloses]
    <3>1. closes' = [closes EXCEPT ![o] = closes[o] + 1] /\ closes[o] < 2
      BY <1>5 DEF Close, MaxCloses
    <3>2. closes \in [Objs -> 0 .. 2]
      BY DEF TypeOK, MaxCloses
    <3>3. closes[o] + 1 \in 0 .. 2
      BY <3>1, <3>2
    <3> QED BY <3>1, <3>2, <3>3 DEF MaxCloses
  <2>3. native' \in [Objs -> {"none", "live", "freed"}]
    BY <1>5 DEF Close, TypeOK, Fault
  <2> QED BY <1>5, <2>1, <2>2, <2>3 DEF Close, TypeOK, timerVars, invVars, objVars
<1>6. ASSUME NEW o \in Objs, Ref(o) \/ Unref(o) \/ Drop(o) PROVE TypeOK'
  <2>1. ASSUME Ref(o) PROVE TypeOK'
    BY <2>1 DEF Ref, TypeOK, invVars, objVars
  <2>2. ASSUME Unref(o) PROVE TypeOK'
    BY <2>2 DEF Unref, TypeOK, invVars, objVars
  <2>3. ASSUME Drop(o) PROVE TypeOK'
    BY <2>3 DEF Drop, TypeOK, timerVars, invVars
  <2> QED BY <1>6, <2>1, <2>2, <2>3
<1>7. ASSUME NEW o \in Objs, Collect(o) PROVE TypeOK'
  BY <1>7 DEF Collect, CellsOf, TypeOK, timerVars
<1>8. ASSUME NEW i \in Invs, FreeInvoker(i) PROVE TypeOK'
  <2>1. fault' \in [kind : FaultKinds, obj : Objs \cup {NULL}]
    BY <1>8, FaultType DEF FreeInvoker, FaultKinds, TypeOK, Invs, Owner
  <2>2. invoker' \in [Invs -> {"none", "live", "freed"}] /\ cleanup' \subseteq Invs
    <3>1. invoker \in [Invs -> {"none", "live", "freed"}] /\ cleanup \subseteq Invs
      BY DEF TypeOK
    <3>2. /\ cleanup' = cleanup \ {i}
          /\ invoker' = invoker \/ invoker' = [invoker EXCEPT ![i] = "freed"]
      BY <1>8 DEF FreeInvoker
    <3> QED BY <3>1, <3>2
  <2>3. UNCHANGED <<objVars, closes, native, nargs, target, datas, cells, given, timerVars, stack>>
    BY <1>8 DEF FreeInvoker
  <2> QED BY <2>1, <2>2, <2>3 DEF TypeOK, timerVars, objVars
<1>9. ASSUME NEW i \in Invs, NEW args \in Args, CallInvoker(i, args) PROVE TypeOK'
  <2>1. args \in Seq(Vals)
    BY DEF Args, Vals
  <2>2. SetParams(i, args) \in Seq(Vals)
    <3>1. nargs[i] \in Nat /\ datas[i] \in Seq(Vals) /\ Len(datas[i]) = nargs[i]
      BY DEF TypeOK
    <3>2. \A a \in 1 .. nargs[i] : SetParams(i, args)[a] \in Vals
      BY <2>1, <3>1 DEF SetParams
    <3>3. SetParams(i, args) \in [1 .. nargs[i] -> Vals]
      BY <3>2 DEF SetParams
    <3> QED BY <3>1, <3>3, SeqDef
  <2>3. Owner(i) \in Objs
    BY DEF Owner, Invs
  <2>4. Len(SetParams(i, args)) = nargs[i]
    BY DEF SetParams, TypeOK
  <2>5. CASE CallFault(i, args) = "none"
    <3>1. [k |-> "native", inv |-> i, entered |-> FALSE] \in NativeFrame
      BY <2>1, <2>2 DEF NativeFrame
    <3>2. stack' \in Seq(NativeFrame \cup JsFrame)
      <4>1. stack' = Append(stack, [k |-> "native", inv |-> i, entered |-> FALSE])
        BY <1>9, <2>5 DEF CallInvoker
      <4> QED BY <4>1, <3>1 DEF TypeOK
    <3>3. datas' \in [Invs -> Seq(Vals)] /\ \A j \in Invs : Len(datas'[j]) = nargs[j]
      <4>1. datas' = [datas EXCEPT ![i] = SetParams(i, args)]
        BY <1>9, <2>5 DEF CallInvoker
      <4> QED BY <4>1, <2>2, <2>4 DEF TypeOK
    <3>4. given' \subseteq Objs
      BY <1>9, <2>5 DEF CallInvoker, TypeOK
    <3> QED BY <1>9, <2>5, <3>2, <3>3, <3>4 DEF CallInvoker, TypeOK, timerVars, objVars
  <2>6. CASE CallFault(i, args) # "none"
    <3>1. CallFault(i, args) \in FaultKinds
      BY DEF CallFault, FaultKinds
    <3>2. fault' \in [kind : FaultKinds, obj : Objs \cup {NULL}]
      BY <1>9, <2>3, <2>6, <3>1, FaultType DEF CallInvoker
    <3> QED BY <1>9, <2>6, <3>2 DEF CallInvoker, TypeOK, timerVars, objVars
  <2> QED BY <2>5, <2>6
<1>10. ASSUME NEW c \in Objs, DoCallback(c) PROVE TypeOK'
  <2>1. CASE native[c] = "freed"
    BY <1>10, <2>1, FaultType DEF DoCallback, TypeOK, timerVars, objVars, invVars, FaultKinds
  <2>2. CASE native[c] # "freed"
    <3> DEFINE top == [stack[Len(stack)] EXCEPT !.entered = TRUE]
    <3>1. stack # <<>> /\ Top.k = "native" /\ Len(stack) \in 1 .. Len(stack)
      BY <1>10 DEF DoCallback, NativeRunning, TypeOK
    <3>2. stack[Len(stack)] \in NativeFrame
      BY <3>1 DEF TypeOK, Top, JsFrame
    <3>3. top \in NativeFrame
      BY <3>2 DEF NativeFrame
    <3>4. [stack EXCEPT ![Len(stack)] = top] \in Seq(NativeFrame \cup JsFrame)
      BY <3>1, <3>3, ExceptSeq DEF TypeOK
    <3>5. [k |-> "js", cb |-> c] \in JsFrame
      BY DEF JsFrame
    <3>6. stack' \in Seq(NativeFrame \cup JsFrame)
      BY <1>10, <2>2, <3>4, <3>5 DEF DoCallback
    <3> QED BY <1>10, <2>2, <3>6 DEF DoCallback, TypeOK, timerVars, objVars, invVars
  <2> QED BY <2>1, <2>2
<1>11. ASSUME stack # <<>> PROVE Pop \in Seq(NativeFrame \cup JsFrame)
  BY <1>11, PopProperties
<1>12. ASSUME NativeReturn PROVE TypeOK'
  <2>1. Top \in NativeFrame
    BY <1>12 DEF NativeReturn, NativeRunning, TypeOK, Top, JsFrame
  <2>2. Owner(Top.inv) \in Objs
    BY <2>1 DEF NativeFrame, Invs, Owner
  <2> QED BY <1>11, <1>12, <2>2, FaultType DEF NativeReturn, NativeRunning, TypeOK, timerVars, objVars, invVars, FaultKinds
<1>13. ASSUME JsRunning, stack # <<>>, ResumeNative
       PROVE  stack' \in Seq(NativeFrame \cup JsFrame)
              /\ fault' \in [kind : FaultKinds, obj : Objs \cup {NULL}]
  <2>1. Len(stack) \in DOMAIN stack /\ Top.k = "js"
    BY <1>13 DEF JsRunning, TypeOK
  <2>2. Len(stack) > 1 /\ stack[Len(stack) - 1].k = "native"
    BY <2>1 DEF Frames, Top
  <2>3. stack[Len(stack) - 1] \in NativeFrame
    BY <2>1, <2>2 DEF TypeOK, JsFrame
  <2>4. Owner(stack[Len(stack) - 1].inv) \in Objs
    BY <2>3 DEF NativeFrame, Invs, Owner
  <2> QED BY <1>11, <1>13, <2>4, FaultType DEF ResumeNative, FaultKinds, TypeOK
<1>14. ASSUME CallbackReturn PROVE TypeOK'
  <2>1. Top \in JsFrame
    BY <1>14 DEF CallbackReturn, JsRunning, TypeOK, Top, NativeFrame
  <2>2. Top.cb \in Objs
    BY <2>1 DEF JsFrame
  <2> QED BY <1>13, <1>14, <2>2, FaultType DEF CallbackReturn, FaultKinds, TypeOK, timerVars, objVars, invVars
<1>15. ASSUME CallbackThrow PROVE TypeOK'
  BY <1>13, <1>15 DEF CallbackThrow, TypeOK, timerVars, objVars, invVars
<1>16. CASE UNCHANGED vars
  BY <1>16 DEF TypeOK, vars
<1> QED
  BY <1>1, <1>2, <1>3, <1>4, <1>5, <1>6, <1>7, <1>8, <1>9, <1>10, <1>12,
     <1>14, <1>15, <1>16 DEF Next

-----------------------------------------------------------------------------
\* What a constructor of o that creates the invokers new on address t does.
ConstructorShape(o, new, t) ==
  /\ kind[o] = "unborn"
  /\ \/ t = o /\ kind' \in {[kind EXCEPT ![o] = "library"], [kind EXCEPT ![o] = "failed"]}
        /\ native' = [native EXCEPT ![o] = "live"]
     \/ (t # NULL => kind[t] = "callback") /\ kind' = [kind EXCEPT ![o] = "fnptr"]
        /\ native' = native
  /\ held' \in {held, held \cup {o}}
  /\ UNCHANGED <<collected, closes, stack, fault>>
  /\ \A i \in Invs :
       /\ i \in new => /\ Owner(i) = o /\ invoker'[i] = "live"
                       /\ target'[i] = t /\ i \in cells'
       /\ i \notin new => /\ invoker'[i] = invoker[i] /\ target'[i] = target[i]
                          /\ (i \in cells' <=> i \in cells)
       /\ i \in cleanup' <=> i \in cleanup

\* The invokers that a constructor's loop created are numbered like its symbols
\* and have their numbers of parameters.
LEMMA CreatedSymbols ==
  ASSUME NEW d \in DefMaps
  PROVE  /\ Created(d) \in SUBSET (1 .. MaxSyms)
         /\ [k \in Created(d) |-> d[k].nargs] \in [Created(d) -> 0 .. MaxArgs]
<1>1. d \in Seq(Entry) /\ Len(d) <= MaxSyms /\ Len(d) \in Nat
  BY ApiAssumption DEF ApiAssumption
<1>2. \A k \in Created(d) : k \in 1 .. Len(d)
  BY <1>1 DEF Created, Visited
<1>3. \A k \in 1 .. Len(d) : d[k] \in Entry
  BY <1>1
<1>4. \A e \in Entry : e.nargs \in 0 .. MaxArgs
  BY DEF Entry
<1> QED BY <1>1, <1>2, <1>3, <1>4, Bounds

\* What both constructors of invokers share: the wrapper is new, and so are its invokers.
LEMMA ConstructorStep ==
  ASSUME NEW o \in Objs,
         \/ \E p \in Paths, d \in DefMaps : Dlopen(o, p, d)
         \/ \E t \in Objs \cup {NULL}, n \in 0 .. MaxArgs : NewFnPointer(o, t, n)
  PROVE  \E new \in SUBSET ({o} \X (1 .. MaxSyms)), t \in Objs \cup {NULL} :
           ConstructorShape(o, new, t)
<1>1. ASSUME NEW p \in Paths, NEW d \in DefMaps, Dlopen(o, p, d)
      PROVE  ConstructorShape(o, {o} \X Created(d), o)
  <2> DEFINE n == [k \in Created(d) |-> d[k].nargs]
  <2>1. CreateInvokers(o, Created(d), n, o)
    BY <1>1 DEF Dlopen
  <2> HIDE DEF n
  <2> QED BY <1>1, <2>1 DEF Dlopen, ConstructorShape, CreateInvokers, NewCells, Owner
<1>2. ASSUME NEW t \in Objs \cup {NULL}, NEW m \in 0 .. MaxArgs, NewFnPointer(o, t, m)
      PROVE  ConstructorShape(o, {o} \X {1}, t)
  <2> DEFINE n == [k \in {1} |-> m]
  <2>1. CreateInvokers(o, {1}, n, t)
    BY <1>2 DEF NewFnPointer
  <2> HIDE DEF n
  <2> QED BY <1>2, <2>1 DEF NewFnPointer, ConstructorShape, CreateInvokers, NewCells, Owner
<1>3. {o} \X {1} \in SUBSET ({o} \X (1 .. MaxSyms))
  BY Bounds
<1>4. \A d \in DefMaps : {o} \X Created(d) \in SUBSET ({o} \X (1 .. MaxSyms))
  BY CreatedSymbols
<1> QED BY <1>1, <1>2, <1>3, <1>4

\* Every other step leaves the objects and the invokers' targets alone.
LEMMA OtherSteps ==
  ASSUME \/ \E o \in Objs : Ref(o) \/ Unref(o) \/ DoCallback(o)
         \/ \E i \in Invs, args \in Args : CallInvoker(i, args)
         \/ NativeReturn \/ CallbackReturn \/ CallbackThrow
  PROVE  UNCHANGED <<kind, held, collected, closes, native, invoker, target,
                     cells, cleanup>>
  BY DEF Ref, Unref, DoCallback, CallInvoker, NativeReturn, CallbackReturn,
         CallbackThrow, objVars, invVars

\* The shape of a step, for the proofs about objects and invokers.
LEMMA StepShape ==
  ASSUME [Next]_vars
  PROVE  \/ \E o \in Objs : \/ \E p \in Paths, d \in DefMaps : Dlopen(o, p, d)
                            \/ \E t \in Objs \cup {NULL}, n \in 0 .. MaxArgs : NewFnPointer(o, t, n)
         \/ \E o \in Objs : \/ \E d \in DefMaps : DlopenNoFile(o, d)
                            \/ NewCallback(o) \/ Close(o) \/ Drop(o) \/ Collect(o)
         \/ \E i \in Invs : FreeInvoker(i)
         \/ UNCHANGED <<kind, held, collected, closes, native, invoker, target,
                        cells, cleanup>>
  BY OtherSteps DEF Next, vars

\* The states of wrappers and of the objects behind them stay in step.
LEMMA NextLifecycle == IInv /\ [Next]_vars => Lifecycle'
<1> SUFFICES ASSUME IInv, [Next]_vars PROVE Lifecycle'
  OBVIOUS
<1> USE Bounds DEF IInv
<1>1. ASSUME NEW o \in Objs,
             \/ \E p \in Paths, d \in DefMaps : Dlopen(o, p, d)
             \/ \E t \in Objs \cup {NULL}, n \in 0 .. MaxArgs : NewFnPointer(o, t, n)
      PROVE  Lifecycle'
  <2> PICK new \in SUBSET ({o} \X (1 .. MaxSyms)), t \in Objs \cup {NULL} :
           ConstructorShape(o, new, t)
    BY <1>1, ConstructorStep
  <2> SUFFICES ASSUME NEW q \in Objs
               PROVE  /\ kind'[q] = "unborn" =>
                           /\ native'[q] = "none" /\ closes'[q] = 0
                           /\ q \notin held' /\ q \notin collected'
                           /\ \A k \in 1 .. MaxSyms : invoker'[<<q, k>>] = "none"
                      /\ native'[q] = "freed" => closes'[q] >= 1
                      /\ q \in held' => q \notin collected'
    BY DEF Lifecycle
  <2>1. CASE q = o
    BY <2>1 DEF Lifecycle, TypeOK, ConstructorShape
  <2>2. CASE q # o
    <3>1. \A k \in 1 .. MaxSyms : invoker'[<<q, k>>] = invoker[<<q, k>>]
      BY <2>2 DEF Invs, Owner, ConstructorShape
    <3>2. kind'[q] = kind[q] /\ native'[q] = native[q] /\ (q \in held' <=> q \in held)
      BY <2>2 DEF TypeOK, ConstructorShape
    <3> QED BY <3>1, <3>2 DEF Lifecycle, ConstructorShape
  <2> QED BY <2>1, <2>2
<1>2. ASSUME NEW o \in Objs, NEW d \in DefMaps, DlopenNoFile(o, d) PROVE Lifecycle'
  <2>1. /\ kind[o] = "unborn"
        /\ \/ kind' = [kind EXCEPT ![o] = "library"] /\ held' = held \cup {o}
           \/ kind' = kind /\ held' = held
        /\ UNCHANGED <<collected, closes, native, invoker>>
    BY <1>2 DEF DlopenNoFile, invVars
  <2> QED BY <2>1 DEF Lifecycle, TypeOK
<1>3. ASSUME NEW o \in Objs, NewCallback(o) PROVE Lifecycle'
  BY <1>3 DEF NewCallback, Lifecycle, TypeOK, invVars
<1>4. ASSUME NEW o \in Objs, Close(o) PROVE Lifecycle'
  <2>1. /\ closes' = [closes EXCEPT ![o] = closes[o] + 1] /\ closes[o] \in Nat
        /\ kind[o] # "unborn"
        /\ UNCHANGED <<kind, held, collected, invoker>>
    BY <1>4 DEF Close, objVars, invVars, TypeOK
  <2>2. native' = native \/ native' = [native EXCEPT ![o] = "freed"]
    BY <1>4 DEF Close, TypeOK
  <2> QED BY <2>1, <2>2 DEF Lifecycle, TypeOK
<1>5. ASSUME NEW o \in Objs, Drop(o) \/ Collect(o) PROVE Lifecycle'
  BY <1>5 DEF Drop, Collect, Lifecycle, invVars
<1>6. ASSUME NEW i \in Invs, FreeInvoker(i) PROVE Lifecycle'
  <2>1. kind[Owner(i)] # "unborn"
    BY <1>6 DEF FreeInvoker, Lifecycle, Registry, Invs, Owner
  <2>2. \A j \in Invs : Owner(j) # Owner(i) => invoker'[j] = invoker[j]
    <3>1. invoker' = invoker \/ invoker' = [invoker EXCEPT ![i] = "freed"]
      BY <1>6 DEF FreeInvoker
    <3> QED BY <3>1 DEF TypeOK
  <2>3. UNCHANGED <<kind, held, collected, closes, native>>
    BY <1>6 DEF FreeInvoker, objVars
  <2> QED BY <2>1, <2>2, <2>3 DEF Lifecycle, Invs, Owner
<1>7. CASE UNCHANGED <<kind, held, collected, closes, native, invoker, target,
                       cells, cleanup>>
  BY <1>7 DEF Lifecycle
<1> QED BY <1>1, <1>2, <1>3, <1>4, <1>5, <1>6, <1>7, StepShape

\* Cells and queued clean-ups stay in step with the live invokers.
LEMMA NextRegistry == IInv /\ [Next]_vars => Registry'
<1> SUFFICES ASSUME IInv, [Next]_vars PROVE Registry'
  OBVIOUS
<1> USE Bounds DEF IInv
<1>1. ASSUME NEW o \in Objs,
             \/ \E p \in Paths, d \in DefMaps : Dlopen(o, p, d)
             \/ \E t \in Objs \cup {NULL}, n \in 0 .. MaxArgs : NewFnPointer(o, t, n)
      PROVE  Registry'
  <2> PICK new \in SUBSET ({o} \X (1 .. MaxSyms)), t \in Objs \cup {NULL} :
           ConstructorShape(o, new, t)
    BY <1>1, ConstructorStep
  <2> SUFFICES ASSUME NEW i \in Invs
               PROVE  /\ i \in cells' => invoker'[i] = "live" /\ Owner(i) \notin collected'
                      /\ i \in cleanup' => invoker'[i] = "live" /\ Owner(i) \in collected'
                      /\ invoker'[i] = "live" => i \in cells' \cup cleanup'
                      /\ invoker'[i] = "freed" => Owner(i) \in collected'
    BY DEF Registry
  <2>1. CASE i \in new
    <3>1. Owner(i) = o /\ invoker'[i] = "live" /\ i \in cells' /\ (i \in cleanup' <=> i \in cleanup)
      BY <2>1 DEF ConstructorShape
    <3>2. o \notin collected /\ invoker[i] = "none" /\ collected' = collected
      BY <2>1 DEF ConstructorShape, Lifecycle
    <3>3. i \notin cleanup
      BY <3>2 DEF Registry
    <3> QED BY <3>1, <3>2, <3>3
  <2>2. CASE i \notin new
    BY <2>2 DEF ConstructorShape, Registry
  <2> QED BY <2>1, <2>2
<1>2. ASSUME NEW o \in Objs, (\E d \in DefMaps : DlopenNoFile(o, d)) \/ NewCallback(o)
                             \/ Close(o) \/ Drop(o)
      PROVE  Registry'
  <2>1. UNCHANGED <<invoker, cells, cleanup, collected>>
    BY <1>2 DEF DlopenNoFile, NewCallback, Close, Drop, invVars, objVars
  <2> QED BY <2>1 DEF Registry
<1>3. ASSUME NEW o \in Objs, Collect(o) PROVE Registry'
  <2>1. \A i \in Invs : /\ i \in cells' <=> i \in cells /\ Owner(i) # o
                        /\ i \in cleanup' <=> i \in cleanup \/ (i \in cells /\ Owner(i) = o)
    BY <1>3 DEF Collect, CellsOf
  <2>2. collected' = collected \cup {o} /\ invoker' = invoker
    BY <1>3 DEF Collect
  <2> SUFFICES ASSUME NEW i \in Invs
               PROVE  /\ i \in cells' => invoker'[i] = "live" /\ Owner(i) \notin collected'
                      /\ i \in cleanup' => invoker'[i] = "live" /\ Owner(i) \in collected'
                      /\ invoker'[i] = "live" => i \in cells' \cup cleanup'
                      /\ invoker'[i] = "freed" => Owner(i) \in collected'
    BY DEF Registry
  <2>3. /\ i \in cells => invoker[i] = "live" /\ Owner(i) \notin collected
        /\ i \in cleanup => invoker[i] = "live" /\ Owner(i) \in collected
        /\ invoker[i] = "live" => i \in cells \cup cleanup
        /\ invoker[i] = "freed" => Owner(i) \in collected
    BY DEF Registry
  <2> QED BY <2>1, <2>2, <2>3
<1>4. ASSUME NEW i \in Invs, FreeInvoker(i) PROVE Registry'
  <2>1. i \in cleanup /\ invoker[i] = "live" /\ Owner(i) \in collected /\ i \notin cells
    BY <1>4 DEF FreeInvoker, Registry
  <2>2. /\ invoker' = [invoker EXCEPT ![i] = "freed"] /\ cleanup' = cleanup \ {i}
        /\ cells' = cells /\ collected' = collected
    BY <1>4, <2>1 DEF FreeInvoker, objVars
  <2> QED BY <2>1, <2>2 DEF Registry, TypeOK
<1>5. CASE UNCHANGED <<kind, held, collected, closes, native, invoker, target,
                       cells, cleanup>>
  BY <1>5 DEF Registry
<1> QED BY <1>1, <1>2, <1>3, <1>4, <1>5, StepShape

\* An invoker calls into its own library or into a callback.
LEMMA NextTargets == IInv /\ [Next]_vars => Targets'
<1> SUFFICES ASSUME IInv, [Next]_vars PROVE Targets'
  OBVIOUS
<1> USE Bounds DEF IInv
<1>1. ASSUME NEW o \in Objs,
             \/ \E p \in Paths, d \in DefMaps : Dlopen(o, p, d)
             \/ \E t \in Objs \cup {NULL}, n \in 0 .. MaxArgs : NewFnPointer(o, t, n)
      PROVE  Targets'
  <2> PICK new \in SUBSET ({o} \X (1 .. MaxSyms)), t \in Objs \cup {NULL} :
           ConstructorShape(o, new, t)
    BY <1>1, ConstructorStep
  <2> SUFFICES ASSUME NEW i \in Invs, invoker'[i] # "none", target'[i] # NULL
               PROVE  \/ target'[i] = Owner(i) /\ kind'[Owner(i)] \in {"library", "failed"}
                         /\ native'[Owner(i)] # "none"
                      \/ kind'[target'[i]] = "callback"
    BY DEF Targets
  <2>1. CASE i \in new
    <3>1. Owner(i) = o /\ target'[i] = t /\ t \in Objs
      BY <2>1 DEF ConstructorShape
    <3>2. CASE t = o /\ kind' \in {[kind EXCEPT ![o] = "library"], [kind EXCEPT ![o] = "failed"]}
               /\ native' = [native EXCEPT ![o] = "live"]
      BY <3>1, <3>2 DEF TypeOK
    <3>3. CASE kind[t] = "callback" /\ kind' = [kind EXCEPT ![o] = "fnptr"] /\ kind[o] = "unborn"
      BY <3>1, <3>3 DEF TypeOK
    <3> QED BY <3>1, <3>2, <3>3 DEF ConstructorShape
  <2>2. CASE i \notin new
    <3>1. invoker[i] # "none" /\ target'[i] = target[i] /\ target[i] # NULL
      BY <2>2 DEF ConstructorShape
    <3>2. target[i] \in Objs /\ Owner(i) \in Objs
      BY <3>1 DEF TypeOK, Invs, Owner
    <3>3. CASE target[i] = Owner(i) /\ kind[Owner(i)] \in {"library", "failed"}
               /\ native[Owner(i)] # "none"
      <4>1. Owner(i) # o /\ kind'[Owner(i)] = kind[Owner(i)] /\ native'[Owner(i)] = native[Owner(i)]
        BY <3>2, <3>3 DEF ConstructorShape, TypeOK
      <4> QED BY <3>1, <3>3, <4>1
    <3>4. CASE kind[target[i]] = "callback"
      <4>1. kind'[target[i]] = "callback"
        BY <3>2, <3>4 DEF ConstructorShape, TypeOK
      <4> QED BY <3>1, <4>1
    <3> QED BY <3>1, <3>3, <3>4 DEF Targets
  <2> QED BY <2>1, <2>2
\* No other step takes a born object's kind, or its native object, away.
<1>2. ASSUME NEW o \in Objs, \/ \E d \in DefMaps : DlopenNoFile(o, d)
                             \/ NewCallback(o) \/ Close(o) \/ Drop(o) \/ Collect(o)
      PROVE  Targets'
  <2>1. /\ UNCHANGED <<invoker, target>>
        /\ \A q \in Objs : /\ kind[q] # "unborn" => kind'[q] = kind[q]
                           /\ native[q] # "none" => native'[q] # "none"
    <3>1. ASSUME NEW d \in DefMaps, DlopenNoFile(o, d)
          PROVE /\ UNCHANGED <<invoker, target, native>> /\ kind[o] = "unborn"
                /\ kind' = kind \/ kind' = [kind EXCEPT ![o] = "library"]
      BY <3>1 DEF DlopenNoFile, invVars
    <3>2. ASSUME NewCallback(o)
          PROVE /\ UNCHANGED <<invoker, target>> /\ kind[o] = "unborn"
                /\ kind' = [kind EXCEPT ![o] = "callback"] /\ native' = [native EXCEPT ![o] = "live"]
      BY <3>2 DEF NewCallback, invVars
    <3>3. ASSUME Close(o)
          PROVE /\ UNCHANGED <<invoker, target, kind>>
                /\ native' = native \/ native' = [native EXCEPT ![o] = "freed"]
      BY <3>3 DEF Close, invVars, objVars, TypeOK
    <3>4. ASSUME Drop(o) \/ Collect(o)
          PROVE UNCHANGED <<invoker, target, kind, native>>
      BY <3>4 DEF Drop, Collect, invVars
    <3> QED BY <1>2, <3>1, <3>2, <3>3, <3>4 DEF TypeOK
  <2>2. \A i \in Invs : Owner(i) \in Objs /\ (target[i] # NULL => target[i] \in Objs)
    BY DEF TypeOK, Invs, Owner
  <2> QED BY <2>1, <2>2 DEF Targets
<1>3. ASSUME NEW i \in Invs, FreeInvoker(i) PROVE Targets'
  <2>1. /\ UNCHANGED <<kind, native, target>>
        /\ invoker' = invoker \/ (invoker' = [invoker EXCEPT ![i] = "freed"] /\ i \in cleanup)
    BY <1>3 DEF FreeInvoker, objVars
  <2>2. \A j \in Invs : invoker'[j] # "none" => invoker[j] # "none"
    BY <2>1 DEF Registry, TypeOK
  <2> QED BY <2>1, <2>2 DEF Targets
<1>4. CASE UNCHANGED <<kind, held, collected, closes, native, invoker, target,
                       cells, cleanup>>
  BY <1>4 DEF Targets
<1> QED BY <1>1, <1>2, <1>3, <1>4, StepShape

\* What a step does to the stack: nothing, a push, or a pop.
LEMMA NextFrames == IInv /\ [Next]_vars => Frames'
<1> SUFFICES ASSUME IInv, [Next]_vars PROVE Frames'
  OBVIOUS
<1> USE Bounds DEF IInv
\* A step that keeps the stack keeps its frames alive.
<1>1. ASSUME stack' = stack,
             \A i \in Invs : invoker[i] = "live" => invoker'[i] = "live" /\ target'[i] = target[i]
      PROVE  Frames'
  <2>1. ASSUME NEW n \in DOMAIN stack, stack[n].k = "native" PROVE stack[n].inv \in Invs
    <3>1. stack[n] \in NativeFrame \cup JsFrame
      BY <2>1 DEF TypeOK
    <3> QED BY <2>1, <3>1 DEF NativeFrame, JsFrame
  <2> QED BY <1>1, <2>1 DEF Frames
<1>2. ASSUME stack # <<>>, stack' = Pop, UNCHANGED <<invoker, target>> PROVE Frames'
  <2>1. stack' \in Seq(NativeFrame \cup JsFrame) /\ Len(stack') = Len(stack) - 1
        /\ \A n \in 1 .. Len(stack') : stack'[n] = stack[n]
    BY <1>2, PopProperties
  <2>2. DOMAIN stack' = 1 .. Len(stack') /\ DOMAIN stack = 1 .. Len(stack) /\ Len(stack) \in Nat
    BY <2>1 DEF TypeOK
  <2> QED BY <1>2, <2>1, <2>2 DEF Frames
<1>3. ASSUME NEW o \in Objs,
             \/ \E p \in Paths, d \in DefMaps : Dlopen(o, p, d)
             \/ \E t \in Objs \cup {NULL}, n \in 0 .. MaxArgs : NewFnPointer(o, t, n)
      PROVE  Frames'
  <2> PICK new \in SUBSET ({o} \X (1 .. MaxSyms)), t \in Objs \cup {NULL} :
           ConstructorShape(o, new, t)
    BY <1>3, ConstructorStep
  <2>1. \A i \in new : invoker[i] = "none"
    BY DEF ConstructorShape, Lifecycle
  <2> QED BY <1>1, <2>1 DEF ConstructorShape
<1>4. ASSUME NEW o \in Objs, \/ \E d \in DefMaps : DlopenNoFile(o, d)
                             \/ NewCallback(o) \/ Close(o) \/ Ref(o) \/ Unref(o)
                             \/ Drop(o) \/ Collect(o)
      PROVE  Frames'
  <2>1. UNCHANGED <<stack, invoker, target>>
    BY <1>4 DEF DlopenNoFile, NewCallback, Close, Ref, Unref, Drop, Collect, invVars, objVars
  <2> QED BY <1>1, <2>1
<1>5. ASSUME NEW i \in Invs, FreeInvoker(i) PROVE Frames'
  BY <1>5 DEF FreeInvoker, TaskCanRun, Frames
<1>6. ASSUME NEW i \in Invs, NEW args \in Args, CallInvoker(i, args) PROVE Frames'
  <2>1. UNCHANGED <<invoker, target>>
    BY <1>6 DEF CallInvoker
  <2>2. CASE CallFault(i, args) # "none"
    BY <1>1, <1>6, <2>1, <2>2 DEF CallInvoker
  <2>3. CASE CallFault(i, args) = "none"
    <3> DEFINE f == [k |-> "native", inv |-> i, entered |-> FALSE]
    <3>1. stack' = Append(stack, f) /\ invoker[i] # "none" /\ f.k = "native" /\ f.inv = i
      BY <1>6, <2>3 DEF CallInvoker
    <3>2. invoker[i] = "live" /\ target[i] # NULL
      BY <2>3, <3>1 DEF CallFault, TypeOK
    <3> HIDE DEF f
    <3>3. /\ DOMAIN stack' = 1 .. Len(stack) + 1 /\ stack'[Len(stack) + 1] = f
          /\ \A n \in 1 .. Len(stack) : stack'[n] = stack[n]
          /\ DOMAIN stack = 1 .. Len(stack) /\ Len(stack) \in Nat
      BY <3>1 DEF TypeOK
    <3> QED BY <2>1, <3>1, <3>2, <3>3 DEF Frames
  <2> QED BY <2>2, <2>3
<1>7. ASSUME NEW c \in Objs, DoCallback(c) PROVE Frames'
  <2>1. UNCHANGED <<invoker, target>>
    BY <1>7 DEF DoCallback, invVars
  <2>2. CASE native[c] = "freed"
    BY <1>1, <1>7, <2>1, <2>2 DEF DoCallback
  <2>3. CASE native[c] # "freed"
    <3> DEFINE low == [stack EXCEPT ![Len(stack)].entered = TRUE]
               top == [stack[Len(stack)] EXCEPT !.entered = TRUE]
               g == [k |-> "js", cb |-> c]
    <3>1. stack' = Append(low, g) /\ stack # <<>> /\ Top.k = "native" /\ g.k = "js"
      BY <1>7, <2>3 DEF DoCallback, NativeRunning
    <3>2. /\ Len(stack) \in Nat \ {0} /\ DOMAIN stack = 1 .. Len(stack)
          /\ stack[Len(stack)] \in NativeFrame
      BY <3>1, EmptySeq DEF TypeOK, Top, JsFrame
    <3>3. top \in NativeFrame /\ top.k = "native" /\ top.inv = stack[Len(stack)].inv
      BY <3>2 DEF NativeFrame
    <3>4. low = [stack EXCEPT ![Len(stack)] = top]
      OBVIOUS
    <3> HIDE DEF top
    <3>5. /\ low \in Seq(NativeFrame \cup JsFrame) /\ Len(low) = Len(stack)
          /\ \A n \in 1 .. Len(stack) : low[n] = IF n = Len(stack) THEN top ELSE stack[n]
      <4>1. stack \in Seq(NativeFrame \cup JsFrame) /\ top \in NativeFrame \cup JsFrame
            /\ Len(stack) \in 1 .. Len(stack)
        BY <3>2, <3>3 DEF TypeOK
      <4> HIDE DEF low
      <4> QED BY <3>4, <4>1, ExceptSeq
    <3> HIDE DEF low, g
    <3>6. /\ DOMAIN stack' = 1 .. Len(stack) + 1 /\ stack'[Len(stack) + 1] = g
          /\ \A n \in 1 .. Len(stack) : stack'[n] = low[n]
      BY <3>1, <3>5
    <3>7. /\ invoker[stack[Len(stack)].inv] = "live"
          /\ target[stack[Len(stack)].inv] # NULL
      BY <3>1, <3>2 DEF Frames, Top
    <3> SUFFICES ASSUME NEW n \in 1 .. Len(stack) + 1
                 PROVE  /\ stack'[n].k = "native" =>
                             invoker[stack'[n].inv] = "live" /\ target[stack'[n].inv] # NULL
                        /\ stack'[n].k = "js" => n > 1 /\ stack'[n - 1].k = "native"
      BY <2>1, <3>6 DEF Frames
    <3>11. \A m \in 1 .. Len(stack) : stack'[m] = IF m = Len(stack) THEN top ELSE stack[m]
      BY <3>5, <3>6
    <3>12. Len(stack) \in Nat \ {0} /\ g.k = "js" /\ top.k = "native"
           /\ top.inv = stack[Len(stack)].inv
      BY <3>1, <3>2, <3>3
    <3>8. CASE n = Len(stack) + 1
      <4>1. stack'[n] = g /\ stack'[n - 1] = top /\ n > 1
        BY <3>6, <3>8, <3>11, <3>12
      <4> QED BY <4>1, <3>12
    <3>9. CASE n = Len(stack)
      <4>1. stack'[n] = top
        BY <3>9, <3>11, <3>12
      <4> QED BY <4>1, <3>7, <3>12
    <3>10. CASE n < Len(stack)
      <4>1. n \in 1 .. Len(stack) /\ n # Len(stack)
        BY <3>10, <3>12
      <4>3. n \in DOMAIN stack /\ stack'[n] = stack[n]
        BY <3>2, <3>11, <4>1
      <4>2. n > 1 => stack'[n - 1] = stack[n - 1]
        BY <3>10, <3>11, <3>12
      <4> QED BY <4>2, <4>3 DEF Frames
    <3> QED BY <3>2, <3>8, <3>9, <3>10
  <2> QED BY <2>2, <2>3
<1>8. ASSUME NativeReturn \/ CallbackReturn \/ CallbackThrow PROVE Frames'
  <2>1. UNCHANGED <<invoker, target>> /\ stack # <<>> /\ (stack' = Pop \/ stack' = stack)
    BY <1>8 DEF NativeReturn, CallbackReturn, CallbackThrow, ResumeNative, NativeRunning, invVars
  <2> QED BY <1>1, <1>2, <2>1
<1>9. CASE UNCHANGED vars
  BY <1>1, <1>9 DEF vars
<1> QED BY <1>3, <1>4, <1>5, <1>6, <1>7, <1>8, <1>9 DEF Next

\* A fault that this step raises is justified before the step, and what
\* justifies it stays.
LEMMA NextFaults == IInv /\ [Next]_vars => FaultsHaveCauses'
<1> SUFFICES ASSUME IInv, [Next]_vars PROVE FaultsHaveCauses'
  OBVIOUS
<1> USE Bounds DEF IInv
\* No step follows a fault.
<1>1. ASSUME UNCHANGED <<held, closes, fault>> PROVE FaultsHaveCauses'
  BY <1>1 DEF FaultsHaveCauses
<1>2. ASSUME fault' = NoFault PROVE FaultsHaveCauses'
  BY <1>2 DEF FaultsHaveCauses, NoFault
<1>3. ASSUME NEW what, NEW o, Fault(what, o),
             what = "freedInvoker" => o \notin held',
             what \in {"freedCallback", "unmappedCode"} => closes'[o] >= 1,
             what = "freedTwice" => closes'[o] = 2
      PROVE  FaultsHaveCauses'
  <2>1. fault'.kind = what /\ fault'.obj = o
    BY <1>3 DEF Fault
  <2> QED BY <1>3, <2>1 DEF FaultsHaveCauses
\* Code that is not mapped belongs to a library that was closed.
<1>4. ASSUME NEW i \in Invs, invoker[i] # "none", target[i] # NULL,
             kind[target[i]] = "library", ~Mapped(target[i])
      PROVE  target[i] = Owner(i) /\ closes[Owner(i)] >= 1
  <2>1. target[i] = Owner(i) /\ native[Owner(i)] # "none" /\ Owner(i) \in Objs
    BY <1>4 DEF Targets, Invs, Owner
  <2>2. native[Owner(i)] # "live"
    BY <1>4, <2>1 DEF Mapped
  <2>3. native[Owner(i)] = "freed"
    BY <2>1, <2>2 DEF TypeOK
  <2> QED BY <2>1, <2>3 DEF Lifecycle
<1>5. ASSUME NEW n \in DOMAIN stack, stack[n].k = "native"
      PROVE  stack[n].inv \in Invs /\ invoker[stack[n].inv] = "live" /\ target[stack[n].inv] # NULL
  <2>1. stack[n] \in NativeFrame
    BY <1>5 DEF TypeOK, JsFrame
  <2> QED BY <1>5, <2>1 DEF Frames, NativeFrame
<1>6. ASSUME NEW o \in Objs,
             \/ \E p \in Paths, d \in DefMaps : Dlopen(o, p, d)
             \/ \E t \in Objs \cup {NULL}, n \in 0 .. MaxArgs : NewFnPointer(o, t, n)
             \/ NewCallback(o) \/ Ref(o) \/ Unref(o) \/ Drop(o) \/ Collect(o)
      PROVE  FaultsHaveCauses'
  <2>1. fault = NoFault /\ fault' = fault
    BY <1>6 DEF Dlopen, NewFnPointer, NewCallback, Ref, Unref, Drop, Collect, JsRunning
  <2> QED BY <1>2, <2>1
<1>7. ASSUME NEW o \in Objs, NEW d \in DefMaps, DlopenNoFile(o, d) PROVE FaultsHaveCauses'
  <2>1. Fault("nullLibrary", o) \/ fault' = NoFault
    BY <1>7 DEF DlopenNoFile, JsRunning
  <2> QED BY <1>2, <1>3, <2>1
<1>8. ASSUME NEW o \in Objs, Close(o) PROVE FaultsHaveCauses'
  <2>1. CASE native[o] = "freed"
    <3>1. closes' = [closes EXCEPT ![o] = closes[o] + 1] /\ closes[o] < 2 /\ Fault("freedTwice", o)
      BY <1>8, <2>1 DEF Close, MaxCloses
    <3>2. closes[o] \in 0 .. 2 /\ closes[o] >= 1
      BY <2>1 DEF Lifecycle, TypeOK, MaxCloses
    <3>3. closes'[o] = 2
      BY <3>1, <3>2 DEF TypeOK
    <3> QED BY <1>3, <3>1, <3>3
  <2>2. CASE native[o] # "freed"
    BY <1>2, <1>8, <2>2 DEF Close, JsRunning
  <2> QED BY <2>1, <2>2
<1>9. ASSUME NEW i \in Invs, FreeInvoker(i) PROVE FaultsHaveCauses'
  <2>1. invoker[i] = "live"
    BY <1>9 DEF FreeInvoker, Registry
  <2> QED BY <1>2, <1>9, <2>1 DEF FreeInvoker
<1>10. ASSUME NEW i \in Invs, NEW args \in Args, CallInvoker(i, args) PROVE FaultsHaveCauses'
  <2>1. CASE CallFault(i, args) = "none"
    BY <1>2, <1>10, <2>1 DEF CallInvoker, JsRunning
  <2>2. CASE CallFault(i, args) # "none"
    <3>1. Fault(CallFault(i, args), Owner(i)) /\ held' = held /\ closes' = closes
          /\ invoker[i] # "none" /\ Owner(i) \in Objs
      BY <1>10, <2>2 DEF CallInvoker, objVars, Owner, Invs
    <3>2. CallFault(i, args) = "freedInvoker" => Owner(i) \notin held
      BY <3>1 DEF CallFault, Registry, Lifecycle
    <3>3. CallFault(i, args) = "unmappedCode" => closes[Owner(i)] >= 1
      BY <1>4, <3>1 DEF CallFault
    <3>4. CallFault(i, args) \notin {"freedCallback", "freedTwice"}
      BY DEF CallFault
    <3> DEFINE what == CallFault(i, args)
    <3>5. what \in {"freedCallback", "unmappedCode"} => closes'[Owner(i)] >= 1
      BY <3>1, <3>3, <3>4
    <3>6. what # "freedTwice" /\ (what = "freedInvoker" => Owner(i) \notin held')
      BY <3>1, <3>2, <3>4
    <3> HIDE DEF what
    <3> QED BY <1>3, <3>1, <3>5, <3>6 DEF what
  <2> QED BY <2>1, <2>2
<1>11. ASSUME NativeReturn PROVE FaultsHaveCauses'
  <2>1. Len(stack) \in DOMAIN stack /\ Top.k = "native" /\ fault = NoFault
    BY <1>11, EmptySeq DEF NativeReturn, NativeRunning, TypeOK
  <2>2. invoker[Top.inv] = "live"
    BY <1>5, <2>1 DEF Top
  <2> QED BY <1>2, <1>11, <2>1, <2>2 DEF NativeReturn
<1>12. ASSUME NEW c \in Objs, DoCallback(c) PROVE FaultsHaveCauses'
  <2>1. closes' = closes /\ held' = held
    BY <1>12 DEF DoCallback, objVars
  <2>2. CASE native[c] = "freed"
    <3>1. Fault("freedCallback", c) /\ closes'[c] >= 1
      BY <1>12, <2>1, <2>2 DEF DoCallback, Lifecycle
    <3> QED BY <1>3, <3>1
  <2>3. CASE native[c] # "freed"
    BY <1>2, <1>12, <2>3 DEF DoCallback, NativeRunning
  <2> QED BY <2>2, <2>3
<1>13. ASSUME JsRunning, stack # <<>>, ResumeNative, closes' = closes, held' = held
       PROVE  FaultsHaveCauses'
  <2>1. Len(stack) \in DOMAIN stack /\ Top.k = "js"
    BY <1>13, EmptySeq DEF JsRunning, TypeOK
  <2>2. Len(stack) - 1 \in DOMAIN stack /\ stack[Len(stack) - 1].k = "native"
    BY <2>1 DEF Frames, Top, TypeOK
  <2> DEFINE caller == stack[Len(stack) - 1].inv
  <2>3. caller \in Invs /\ invoker[caller] = "live" /\ target[caller] # NULL
    BY <1>5, <2>2
  <2>4. CASE kind[target[caller]] = "library" /\ ~Mapped(target[caller])
    <3>1. Fault("unmappedCode", Owner(caller))
      BY <1>13, <2>4 DEF ResumeNative
    <3>2. closes'[Owner(caller)] >= 1
      BY <1>4, <1>13, <2>3, <2>4
    <3> HIDE DEF caller
    <3> QED BY <1>3, <3>1, <3>2
  <2>5. CASE ~(kind[target[caller]] = "library" /\ ~Mapped(target[caller]))
    BY <1>2, <1>13, <2>5 DEF ResumeNative, JsRunning
  <2> QED BY <2>4, <2>5
<1>14. ASSUME CallbackReturn PROVE FaultsHaveCauses'
  <2>1. closes' = closes /\ held' = held /\ JsRunning /\ stack # <<>>
    BY <1>14 DEF CallbackReturn, objVars
  <2>2. CASE native[Top.cb] = "freed"
    <3>1. Len(stack) \in DOMAIN stack /\ Top.k = "js"
      BY <2>1, EmptySeq DEF JsRunning, TypeOK
    <3>2. Top.cb \in Objs
      BY <3>1 DEF Top, TypeOK, NativeFrame, JsFrame
    <3>3. Fault("freedCallback", Top.cb) /\ closes'[Top.cb] >= 1
      BY <1>14, <2>1, <2>2, <3>2 DEF CallbackReturn, Lifecycle
    <3> QED BY <1>3, <3>3
  <2>3. CASE native[Top.cb] # "freed"
    BY <1>13, <1>14, <2>1, <2>3 DEF CallbackReturn
  <2> QED BY <2>2, <2>3
<1>15. ASSUME CallbackThrow PROVE FaultsHaveCauses'
  BY <1>13, <1>15 DEF CallbackThrow, objVars
<1>16. CASE UNCHANGED vars
  BY <1>1, <1>16 DEF vars
<1> QED BY <1>6, <1>7, <1>8, <1>9, <1>10, <1>11, <1>12, <1>14, <1>15, <1>16 DEF Next

-----------------------------------------------------------------------------
\* The inductive invariant holds in every reachable state.
THEOREM Invariance == Spec => []IInv
<1>1. IInv /\ [Next]_vars => IInv'
  BY NextType, NextLifecycle, NextRegistry, NextTargets, NextFrames, NextFaults DEF IInv
<1> QED BY InitIInv, <1>1, PTL DEF Spec

\* TypeOK: all state of the binding keeps its type, and every invoker has as
\* many argument slots as its cif has parameters.
THEOREM TypeCorrect == Spec => []TypeOK
<1>1. IInv => TypeOK
  BY DEF IInv
<1> QED BY Invariance, <1>1, PTL

\* FaultsHaveCauses: however many wrappers, symbols and frames there are, no
\* freed invoker, freed callback or unmapped code is reached, and nothing is
\* freed twice, unless the program dropped or closed what it went on using.
THEOREM NoFaultWithoutCause == Spec => []FaultsHaveCauses
<1>1. IInv => FaultsHaveCauses
  BY DEF IInv
<1> QED BY Invariance, <1>1, PTL

\* RunningInvokersLive: a running native function's invoker is never freed.
THEOREM RunningInvokersStayLive == Spec => []RunningInvokersLive
<1>1. IInv => RunningInvokersLive
  BY DEF IInv, Frames, RunningInvokersLive
<1> QED BY Invariance, <1>1, PTL

\* NoInvokerLeak: every invoker of a collected wrapper is freed or queued.
THEOREM CollectedInvokersQueued == Spec => []NoInvokerLeak
<1>1. IInv => NoInvokerLeak
  BY DEF IInv, Registry, NoInvokerLeak
<1> QED BY Invariance, <1>1, PTL

-----------------------------------------------------------------------------
\* ref() and unref() are all that touches the intervals.
LEMMA NextKeepAlive == TypeOK /\ KeepAliveExact /\ [Next]_vars => KeepAliveExact'
<1> SUFFICES ASSUME TypeOK, KeepAliveExact, [Next]_vars PROVE KeepAliveExact'
  OBVIOUS
<1>1. ASSUME NEW o \in Objs, Ref(o) PROVE KeepAliveExact'
  <2> PICK t \in Timers \ intervals :
         timer' = [timer EXCEPT ![o] = t] /\ intervals' = intervals \cup {t}
    BY <1>1 DEF Ref
  <2>1. timer[o] = 0 /\ t # 0 /\ \A p \in Objs : timer[p] # t
    BY <1>1, Bounds DEF Ref, NeedsInterval, KeepAliveExact, Timers
  <2>2. timer'[o] = t /\ \A p \in Objs : p # o => timer'[p] = timer[p]
    BY DEF TypeOK
  <2>3. intervals' = {timer'[p] : p \in Objs} \ {0}
    <3>1. ASSUME NEW x PROVE x \in intervals' <=> x # 0 /\ \E p \in Objs : timer'[p] = x
      <4>1. x \in intervals <=> x # 0 /\ \E p \in Objs : timer[p] = x
        BY DEF KeepAliveExact
      <4> QED BY <2>1, <2>2, <4>1
    <3> QED BY <3>1
  <2>4. \A p, q \in Objs : timer'[p] = timer'[q] /\ timer'[p] # 0 => p = q
    BY <2>1, <2>2 DEF KeepAliveExact
  <2> QED BY <2>3, <2>4 DEF KeepAliveExact
<1>2. ASSUME NEW o \in Objs, Unref(o) PROVE KeepAliveExact'
  <2>1. /\ timer[o] # 0 /\ intervals' = intervals \ {timer[o]}
        /\ timer'[o] = 0 /\ \A p \in Objs : p # o => timer'[p] = timer[p]
    BY <1>2 DEF Unref, TypeOK
  <2>2. \A p \in Objs : p # o => timer[p] # timer[o]
    BY <2>1 DEF KeepAliveExact
  <2>3. intervals' = {timer'[p] : p \in Objs} \ {0}
    <3>1. ASSUME NEW x PROVE x \in intervals' <=> x # 0 /\ \E p \in Objs : timer'[p] = x
      <4>1. x \in intervals <=> x # 0 /\ \E p \in Objs : timer[p] = x
        BY DEF KeepAliveExact
      <4> QED BY <2>1, <2>2, <4>1
    <3> QED BY <3>1
  <2>4. \A p, q \in Objs : timer'[p] = timer'[q] /\ timer'[p] # 0 => p = q
    BY <2>1 DEF KeepAliveExact
  <2> QED BY <2>3, <2>4 DEF KeepAliveExact
<1>3. ASSUME UNCHANGED timerVars PROVE KeepAliveExact'
  BY <1>3 DEF timerVars, KeepAliveExact
<1>4. ASSUME NEW o \in Objs,
             \/ \E d \in DefMaps : DlopenNoFile(o, d) \/ \E p \in Paths : Dlopen(o, p, d)
             \/ \E t \in Objs \cup {NULL}, n \in 0 .. MaxArgs : NewFnPointer(o, t, n)
             \/ NewCallback(o) \/ DoCallback(o) \/ Close(o) \/ Drop(o) \/ Collect(o)
      PROVE  UNCHANGED timerVars
  BY <1>4 DEF DlopenNoFile, Dlopen, NewFnPointer, NewCallback, DoCallback, Close, Drop, Collect
<1>5. ASSUME NEW i \in Invs, FreeInvoker(i) \/ \E args \in Args : CallInvoker(i, args)
      PROVE  UNCHANGED timerVars
  BY <1>5 DEF FreeInvoker, CallInvoker
<1>6. ASSUME NativeReturn \/ CallbackReturn \/ CallbackThrow PROVE UNCHANGED timerVars
  BY <1>6 DEF NativeReturn, CallbackReturn, CallbackThrow
<1>7. CASE UNCHANGED vars
  BY <1>3, <1>7 DEF vars, timerVars
<1> QED BY <1>1, <1>2, <1>3, <1>4, <1>5, <1>6, <1>7 DEF Next

\* KeepAliveExact: each active interval is the #timeout of one callback.
THEOREM IntervalsAlwaysOwned == Spec => []KeepAliveExact
<1>1. Init => KeepAliveExact
  BY Bounds DEF Init, KeepAliveExact
<1> QED BY TypeCorrect, NextKeepAlive, <1>1, PTL DEF Spec
=============================================================================
