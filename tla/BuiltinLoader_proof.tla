------------------------ MODULE BuiltinLoader_proof ------------------------
(***************************************************************************)
(* For any sets of modules and any blocked and experimental ones among     *)
(* them: what TLC checks of BuiltinLoader on four modules.                 *)
(*                                                                         *)
(* The invariant adds what the properties rest on: a module that runs is   *)
(* not loaded, and what a program may require, or has required, has its    *)
(* flag.                                                                   *)
(***************************************************************************)
EXTENDS BuiltinLoader, SequenceTheorems, FiniteSetTheorems, TLAPS

Frames == [id : Ids, public : BOOLEAN]

\* TypeOK without the bound on the stack, which follows from Stack.
Types ==
  /\ flags \subseteq experimentalModuleList /\ exposed \in BOOLEAN /\ started \in BOOLEAN
  /\ canBeRequiredByUsersList \subseteq Ids
  /\ canBeRequiredByUsersWithoutSchemeList \subseteq Ids /\ realmIds \subseteq Ids
  /\ loaded \subseteq Ids /\ loading \subseteq Ids
  /\ exports \in [Ids -> {"none", "some", "all"}]
  /\ exportKeys \in [Ids -> {"undefined", "none", "some", "all"}]
  /\ stack \in Seq(Frames)
  /\ moduleLoadList \in Seq(Ids)

\* The functions on the stack are those of the modules marked as loading, each
\* once, and none of them has succeeded before.
Stack ==
  /\ loading = Running
  /\ \A i, j \in DOMAIN stack : stack[i].id = stack[j].id => i = j
  /\ loading \cap loaded = {}

\* What a module needs before a program may have it.
Allowed(id) ==
  /\ id \in experimentalModuleList => id \in flags
  /\ id \in InternalIds => exposed

\* A module that a program may require, or whose function runs for the program,
\* has its flag.
Flagged ==
  /\ \A id \in canBeRequiredByUsersList : Allowed(id)
  /\ \A i \in DOMAIN stack : stack[i].public => Allowed(stack[i].id)

IInv == Types /\ Stack /\ LoadedOnce /\ SchemesAgree /\ Flagged /\ FlagsNeeded

-----------------------------------------------------------------------------
(* Sequences.                                                              *)

\* A longer sequence has the old elements and the new one.
LEMMA AppendFacts ==
  ASSUME NEW S, NEW s \in Seq(S), NEW e \in S
  PROVE  /\ Append(s, e) \in Seq(S)
         /\ DOMAIN s = 1 .. Len(s) /\ Len(s) \in Nat
         /\ DOMAIN Append(s, e) = 1 .. Len(s) + 1
         /\ \A i \in 1 .. Len(s) : Append(s, e)[i] = s[i]
         /\ Append(s, e)[Len(s) + 1] = e
BY AppendProperties, LenProperties

\* A sequence without its last element has the others.
LEMMA FrontFacts ==
  ASSUME NEW S, NEW s \in Seq(S), s # <<>>
  PROVE  /\ Len(s) \in Nat \ {0} /\ DOMAIN s = 1 .. Len(s)
         /\ Last(s) \in S /\ Last(s) = s[Len(s)]
         /\ Front(s) \in Seq(S)
         /\ DOMAIN Front(s) = 1 .. Len(s) - 1
         /\ \A i \in 1 .. Len(s) - 1 : Front(s)[i] = s[i]
<1>1. Len(s) \in Nat \ {0} /\ DOMAIN s = 1 .. Len(s)
  BY EmptySeq, LenProperties
<1>2. \A i \in 1 .. Len(s) : s[i] \in S
  BY ElementOfSeq
<1>3. /\ Front(s) \in Seq(S)
      /\ Len(Front(s)) = Len(s) - 1
      /\ \A i \in 1 .. Len(s) - 1 : Front(s)[i] = s[i]
  BY <1>1, <1>2, SubSeqProperties DEF Front
<1>4. DOMAIN Front(s) = 1 .. Len(s) - 1
  BY <1>3, LenProperties
<1> QED
  BY <1>1, <1>2, <1>3, <1>4 DEF Last

-----------------------------------------------------------------------------
\* The modules fit on the stack, as none of them is on it twice.
LEMMA StackBounded == Types /\ Stack => Len(stack) <= Cardinality(Ids)
<1> SUFFICES ASSUME Types, Stack PROVE Len(stack) <= Cardinality(Ids)
  OBVIOUS
<1> DEFINE ids == [i \in 1 .. Len(stack) |-> stack[i].id]
<1>1. Len(stack) \in Nat /\ DOMAIN stack = 1 .. Len(stack)
  BY LenProperties DEF Types
<1>2. \A i \in 1 .. Len(stack) : stack[i] \in Frames
  BY ElementOfSeq DEF Types
<1>3. ids \in Injection(1 .. Len(stack), Ids)
  BY <1>1, <1>2 DEF Stack, Frames, Injection, IsInjective
<1>4. IsFiniteSet(Ids)
  BY BuiltinAssumption, FS_Union DEF Ids
<1>5. Cardinality(1 .. Len(stack)) <= Cardinality(Ids)
  BY <1>3, <1>4, FS_Injection
<1>6. \A n \in Nat : Cardinality(1 .. n) = n
  <2> SUFFICES ASSUME NEW n \in Nat PROVE Cardinality(1 .. n) = n
    OBVIOUS
  <2>1. Cardinality(1 .. n) = IF 1 > n THEN 0 ELSE n - 1 + 1
    BY FS_Interval
  <2> QED
    BY <2>1
<1> QED
  BY <1>1, <1>5, <1>6

\* At the start nothing is loaded and only public modules can be required.
LEMMA InitIInv == Init => IInv
<1> SUFFICES ASSUME Init PROVE IInv
  OBVIOUS
<1> USE BuiltinAssumption DEF Init
<1>1. stack = <<>> /\ <<>> \in Seq(Frames) /\ <<>> \in Seq(Ids) /\ DOMAIN <<>> = {}
  BY EmptySeq
<1>2. Types
  BY <1>1 DEF Types, Ids, publicBuiltinIds
<1>3. Stack /\ LoadedOnce
  BY <1>1 DEF Stack, Running, LoadedOnce, ToSet, IsInjective
<1>4. SchemesAgree /\ FlagsNeeded
  BY DEF SchemesAgree, FlagsNeeded, Ids
<1>5. Flagged
  BY <1>1 DEF Flagged, Allowed, publicBuiltinIds
<1> QED
  BY <1>2, <1>3, <1>4, <1>5 DEF IInv

-----------------------------------------------------------------------------
\* A module's function starts, for the program only if it has the flag.
LEMMA RunKeeps ==
  ASSUME IInv, NEW frame \in Frames, Run(frame),
         frame.public => Allowed(frame.id),
         UNCHANGED <<flags, exposed, lists, loaded, exports, exportKeys, moduleLoadList>>
  PROVE  (Stack /\ LoadedOnce /\ SchemesAgree /\ Flagged /\ FlagsNeeded)'
<1> USE DEF IInv
<1>1. /\ DOMAIN stack = 1 .. Len(stack) /\ Len(stack) \in Nat
      /\ DOMAIN stack' = 1 .. Len(stack) + 1
      /\ \A i \in 1 .. Len(stack) : stack'[i] = stack[i]
      /\ stack'[Len(stack) + 1] = frame
  BY AppendFacts DEF Types, Run
<1>2. Running' = Running \cup {frame.id}
  <2>1. Running' = {stack'[i].id : i \in 1 .. Len(stack) + 1}
    BY <1>1 DEF Running
  <2>2. 1 .. Len(stack) + 1 = (1 .. Len(stack)) \cup {Len(stack) + 1}
    BY <1>1
  <2> QED
    BY <1>1, <2>1, <2>2 DEF Running
<1>3. Stack'
  <2>1. loading' = Running' /\ (loading \cap loaded = {})'
    BY <1>2 DEF Run, Stack
  <2>2. \A i \in 1 .. Len(stack) : stack[i].id # frame.id
    BY <1>1 DEF Run, Stack, Running
  <2>3. ASSUME NEW i \in DOMAIN stack', NEW j \in DOMAIN stack', stack'[i].id = stack'[j].id
        PROVE  i = j
    BY <1>1, <2>2, <2>3 DEF Stack
  <2> QED
    BY <2>1, <2>3 DEF Stack
<1>4. Flagged'
  BY <1>1 DEF Flagged, Allowed, lists
<1>5. (LoadedOnce /\ SchemesAgree /\ FlagsNeeded)'
  BY DEF LoadedOnce, SchemesAgree, FlagsNeeded, lists
<1> QED
  BY <1>3, <1>4, <1>5

\* The function on top ends: its module is no longer loading, and the others
\* run on.
LEMMA FrontKeeps ==
  ASSUME Types, Stack, Flagged, stack # <<>>,
         stack' = Front(stack), loading' = NotLoading(Last(stack).id),
         loaded' \subseteq loaded \cup {Last(stack).id},
         UNCHANGED <<flags, exposed, lists>>
  PROVE  (Stack /\ Flagged)' /\ stack' \in Seq(Frames)
         /\ Last(stack) \in Frames /\ Last(stack).id \in loading
         /\ (Last(stack).public => Allowed(Last(stack).id))
<1>1. /\ Len(stack) \in Nat \ {0} /\ DOMAIN stack = 1 .. Len(stack)
      /\ Last(stack) \in Frames /\ Last(stack) = stack[Len(stack)]
      /\ stack' \in Seq(Frames)
      /\ DOMAIN stack' = 1 .. Len(stack) - 1
      /\ \A i \in 1 .. Len(stack) - 1 : stack'[i] = stack[i]
  BY FrontFacts DEF Types
<1>2. Running' = Running \ {Last(stack).id}
  <2>1. Running' = {stack[i].id : i \in 1 .. Len(stack) - 1}
    BY <1>1 DEF Running
  <2>2. \A i \in 1 .. Len(stack) - 1 : stack[i].id # Last(stack).id
    BY <1>1 DEF Stack
  <2>3. 1 .. Len(stack) = (1 .. Len(stack) - 1) \cup {Len(stack)}
    BY <1>1
  <2> QED
    BY <1>1, <2>1, <2>2, <2>3 DEF Running
<1>3. Stack'
  <2>1. loading' = Running' /\ (loading \cap loaded = {})'
    BY <1>2 DEF NotLoading, Stack
  <2>2. \A i, j \in DOMAIN stack' : stack'[i].id = stack'[j].id => i = j
    BY <1>1 DEF Stack
  <2> QED
    BY <2>1, <2>2 DEF Stack
<1>4. Flagged'
  BY <1>1 DEF Flagged, Allowed, lists
<1>5. Last(stack).id \in loading
  BY <1>1 DEF Stack, Running
<1>6. Last(stack).public => Allowed(Last(stack).id)
  BY <1>1 DEF Flagged
<1> QED
  BY <1>1, <1>3, <1>4, <1>5, <1>6

\* No step breaks the invariant.
LEMMA NextIInv == IInv /\ [Next]_vars => IInv'
<1> SUFFICES ASSUME IInv, [Next]_vars PROVE IInv'
  OBVIOUS
<1> USE BuiltinAssumption DEF IInv
<1>1. CASE PreExecution
  <2>1. UNCHANGED <<stack, loading, loaded, exports, exportKeys, moduleLoadList, flags, exposed, realmIds>>
    BY <1>1 DEF PreExecution, life
  <2>2. /\ canBeRequiredByUsersList' =
             canBeRequiredByUsersList \cup (flags \cup IF exposed THEN InternalIds ELSE {})
        /\ canBeRequiredByUsersWithoutSchemeList' = canBeRequiredByUsersWithoutSchemeList
             \cup ((flags \cup IF exposed THEN InternalIds ELSE {}) \ schemelessBlockList)
    BY <1>1 DEF PreExecution, AllowRequireByUsers
  <2>3. Types'
    BY <1>1, <2>1, <2>2 DEF PreExecution, Types, Ids
  <2>4. Flagged' /\ SchemesAgree'
    BY <2>1, <2>2 DEF Flagged, Allowed, SchemesAgree, Types
  <2>5. (Stack /\ LoadedOnce /\ FlagsNeeded)'
    BY <2>1 DEF Stack, Running, LoadedOnce, FlagsNeeded
  <2> QED
    BY <2>3, <2>4, <2>5
<1>2. ASSUME NEW ids \in SUBSET Ids, SetRealmAllowRequireByUsers(ids) PROVE IInv'
  <2>1. UNCHANGED <<stack, loading, loaded, exports, exportKeys, moduleLoadList, flags, exposed>>
    BY <1>2 DEF SetRealmAllowRequireByUsers, life
  <2>2. Types'
    BY <1>2, <2>1 DEF SetRealmAllowRequireByUsers, Types, Ids, publicBuiltinIds
  <2>3. Flagged' /\ SchemesAgree'
    BY <1>2, <2>1 DEF SetRealmAllowRequireByUsers, Flagged, Allowed, SchemesAgree, publicBuiltinIds
  <2>4. (Stack /\ LoadedOnce /\ FlagsNeeded)'
    BY <2>1 DEF Stack, Running, LoadedOnce, FlagsNeeded
  <2> QED
    BY <2>2, <2>3, <2>4
<1>3. ASSUME NEW id \in Ids, RequireBuiltin(id) PROVE IInv'
  <2>1. ByBuiltin(id) \in Frames /\ ~ByBuiltin(id).public
    BY DEF ByBuiltin, Frames
  <2>2. Types'
    BY <1>3, <2>1, AppendFacts DEF RequireBuiltin, Run, Types, lists, ByBuiltin
  <2> QED
    BY <1>3, <2>1, <2>2, RunKeeps DEF RequireBuiltin
<1>4. ASSUME NEW id \in Ids, NEW scheme \in BOOLEAN, Require(id, scheme) PROVE IInv'
  <2>1. Allowed(id)
    BY <1>4 DEF Require, ForPublicUse, Flagged
  <2>2. CASE Run(ByUser(id)) /\ UNCHANGED exportKeys
    <3>1. ByUser(id) \in Frames /\ ByUser(id).id = id
      BY DEF ByUser, Frames
    <3>2. Types'
      BY <1>4, <2>2, <3>1, AppendFacts DEF Require, Run, Types, lists
    <3> QED
      BY <1>4, <2>1, <2>2, <3>1, <3>2, RunKeeps DEF Require
  <2>3. CASE /\ id \in loaded \cup loading /\ exportKeys' = KeysTaken(id, exports[id])
             /\ UNCHANGED <<loading, stack>>
    <3>1. /\ exportKeys' \in [Ids -> {"undefined", "none", "some", "all"}]
          /\ \A x \in Ids \ {id} : exportKeys'[x] = exportKeys[x]
      BY <2>3 DEF KeysTaken, Types
    <3>2. Types'
      BY <1>4, <2>3, <3>1 DEF Require, Types, lists
    <3>3. FlagsNeeded'
      BY <1>4, <2>1, <3>1 DEF Require, FlagsNeeded, Allowed
    <3>4. (Stack /\ LoadedOnce /\ SchemesAgree /\ Flagged)'
      BY <1>4, <2>3 DEF Require, Stack, Running, LoadedOnce, SchemesAgree, Flagged, Allowed, lists
    <3> QED
      BY <3>2, <3>3, <3>4
  <2> QED
    BY <1>4, <2>2, <2>3 DEF Require
<1>5. CASE Export
  <2>1. Last(stack) \in Frames
    BY <1>5, FrontFacts DEF Export, Types
  <2>2. Types'
    BY <1>5, <2>1 DEF Export, Types, Frames, lists
  <2>3. LoadedOnce'
    BY <1>5, <2>1 DEF Export, LoadedOnce, Types, Frames
  <2>4. (Stack /\ SchemesAgree /\ Flagged /\ FlagsNeeded)'
    BY <1>5 DEF Export, Stack, Running, SchemesAgree, Flagged, Allowed, FlagsNeeded, lists
  <2> QED
    BY <2>2, <2>3, <2>4
<1>6. CASE Return
  <2> DEFINE top == Last(stack)
  <2>1. /\ stack # <<>> /\ stack' = Front(stack) /\ loading' = NotLoading(top.id)
        /\ loaded' = loaded \cup {top.id} /\ exports' = [exports EXCEPT ![top.id] = "all"]
        /\ moduleLoadList' = Append(moduleLoadList, top.id)
        /\ exportKeys' = IF top.public THEN KeysTaken(top.id, "all") ELSE exportKeys
        /\ UNCHANGED <<flags, exposed, started, lists>>
    BY <1>6 DEF Return, LoadedAfter
  <2>2. /\ (Stack /\ Flagged)' /\ stack' \in Seq(Frames) /\ top \in Frames /\ top.id \in loading
        /\ top.public => Allowed(top.id)
    BY <2>1, FrontKeeps
  <2>3. top.id \in Ids /\ top.id \notin loaded
    BY <2>2 DEF Frames, Stack
  <2> HIDE DEF top
  <2>4. /\ exportKeys' \in [Ids -> {"undefined", "none", "some", "all"}]
        /\ \A x \in Ids \ {top.id} : exportKeys'[x] = exportKeys[x]
        /\ ~top.public => exportKeys' = exportKeys
    BY <2>1, <2>3 DEF KeysTaken, Types, Ids
  <2>5. /\ Append(moduleLoadList, top.id) \in Seq(Ids) /\ Len(moduleLoadList) \in Nat
        /\ DOMAIN moduleLoadList = 1 .. Len(moduleLoadList)
        /\ DOMAIN moduleLoadList' = 1 .. Len(moduleLoadList) + 1
        /\ \A i \in 1 .. Len(moduleLoadList) : moduleLoadList'[i] = moduleLoadList[i]
        /\ moduleLoadList'[Len(moduleLoadList) + 1] = top.id
    BY <2>1, <2>3, AppendFacts DEF Types
  <2>6. Types'
    BY <2>1, <2>2, <2>3, <2>4, <2>5 DEF Types, NotLoading, lists
  <2>7. LoadedOnce'
    <3>1. ToSet(moduleLoadList') = ToSet(moduleLoadList) \cup {top.id}
      BY <2>5 DEF ToSet
    <3>2. IsInjective(moduleLoadList')
      BY <2>3, <2>5 DEF LoadedOnce, ToSet, IsInjective
    <3>3. \A id \in loaded' : exports'[id] = "all"
      BY <2>1, <2>3 DEF LoadedOnce, Types
    <3> QED
      BY <2>1, <3>1, <3>2, <3>3 DEF LoadedOnce
  <2>8. FlagsNeeded' /\ SchemesAgree'
    BY <2>1, <2>2, <2>4 DEF FlagsNeeded, Allowed, SchemesAgree, lists
  <2> QED
    BY <2>2, <2>6, <2>7, <2>8
<1>7. CASE Throw
  <2>1. (Stack /\ Flagged)' /\ stack' \in Seq(Frames)
    BY <1>7, FrontKeeps DEF Throw
  <2>2. Types'
    BY <1>7, <2>1 DEF Throw, Types, NotLoading, lists
  <2>3. (LoadedOnce /\ SchemesAgree /\ FlagsNeeded)'
    BY <1>7 DEF Throw, LoadedOnce, SchemesAgree, FlagsNeeded, lists
  <2> QED
    BY <2>1, <2>2, <2>3
<1>8. CASE UNCHANGED vars
  BY <1>8 DEF vars, lists, life, Types, Stack, Running, LoadedOnce,
              SchemesAgree, Flagged, Allowed, FlagsNeeded
<1> QED
  BY <1>1, <1>2, <1>3, <1>4, <1>5, <1>6, <1>7, <1>8 DEF Next

-----------------------------------------------------------------------------
\* Every reachable state satisfies the invariant.
THEOREM Invariance == Spec => []IInv
<1> QED
  BY InitIInv, NextIInv, PTL DEF Spec

\* A module is marked as loading exactly while its function runs, once, however
\* modules require each other (compileForInternalLoader).
THEOREM LoadingExact == Spec => []LoadingIsRunning
<1>1. IInv => LoadingIsRunning
  BY StackBounded DEF IInv, LoadingIsRunning, TypeOK, Types, Stack, Frames
<1> QED
  BY <1>1, Invariance, PTL

\* No module succeeds twice, and the ones that did have all their exports.
THEOREM LoadedAtMostOnce == Spec => []LoadedOnce
<1>1. IInv => LoadedOnce
  BY DEF IInv
<1> QED
  BY <1>1, Invariance, PTL

\* The names of a public module that a program imports are taken once, and are
\* all of its names unless the program asked for them while the module's own
\* function was running (compileForPublicLoader).
THEOREM KeysAlwaysComplete == Spec => KeysComplete
<1> DEFINE Taken == \A id \in PublicIds : exportKeys'[id] # exportKeys[id] =>
                      exportKeys'[id] = "all" \/ id \in loading \cap loading'
<1>1. IInv /\ [Next]_vars => [Taken]_vars
  <2> SUFFICES ASSUME IInv, Next, NEW id \in PublicIds, exportKeys'[id] # exportKeys[id]
               PROVE  exportKeys'[id] = "all" \/ id \in loading \cap loading'
    OBVIOUS
  <2>1. /\ exportKeys \in [Ids -> {"undefined", "none", "some", "all"}]
        /\ id \in Ids /\ id \notin InternalIds
    BY BuiltinAssumption DEF IInv, Types, Ids
  <2>2. ASSUME NEW k \in Ids, NEW scheme \in BOOLEAN, Require(k, scheme)
        PROVE  exportKeys'[id] = "all" \/ id \in loading \cap loading'
    <3>1. /\ k \in loaded \cup loading /\ loading' = loading
          /\ exportKeys' = KeysTaken(k, exports[k])
      BY <2>2 DEF Require
    <3>2. k = id /\ exportKeys'[id] = exports[id]
      BY <2>1, <3>1 DEF KeysTaken
    <3> QED
      BY <3>1, <3>2 DEF IInv, LoadedOnce
  <2>3. ASSUME Return PROVE exportKeys'[id] = "all"
    BY <2>1, <2>3 DEF Return, KeysTaken
  <2>4. exportKeys' = exportKeys \/ Return \/ \E k \in Ids, scheme \in BOOLEAN : Require(k, scheme)
    BY DEF Next, PreExecution, SetRealmAllowRequireByUsers, RequireBuiltin, Export, Throw, life
  <2> QED
    BY <2>2, <2>3, <2>4
<1> QED
  BY <1>1, Invariance, PTL DEF Spec, KeysComplete

\* The two lists of requirable modules disagree only about modules that are not
\* public, and only in a realm whose own list names them.
THEOREM SchemesAlwaysAgree == Spec => []SchemesAgree
<1>1. IInv => SchemesAgree
  BY DEF IInv
<1> QED
  BY <1>1, Invariance, PTL

\* No program gets an experimental module without its flag, or an internal one
\* without --expose-internals, in any realm.
THEOREM FlagsAlwaysNeeded == Spec => []FlagsNeeded
<1>1. IInv => FlagsNeeded
  BY DEF IInv
<1> QED
  BY <1>1, Invariance, PTL
=============================================================================
