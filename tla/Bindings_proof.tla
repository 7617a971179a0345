--------------------------- MODULE Bindings_proof ---------------------------
(***************************************************************************)
(* For any tree of workers, any modules and names: what TLC checks of      *)
(* Bindings on two environments and five modules.                          *)
(*                                                                         *)
(* The invariant adds what the properties rest on: every list has modules  *)
(* with its own flag, the cache of internalBinding() has a module under    *)
(* its own name, and the calls of _linkedBinding on an environment's stack *)
(* are in the order in which their initializers started, none of them      *)
(* after the one whose object is in the cache.                             *)
(***************************************************************************)
EXTENDS Bindings, SequenceTheorems, FiniteSetTheorems, WellFoundedInduction, TLAPS

Calls ==
  [pc : {"walk", "initializer"}, name : Names, at : Nat \ {0},
   module : Linked \cup Extra \cup {None}, run : Nat, nearest : Nat \ {0}]

Types == TypeOK /\ frames \in [Environments -> Seq(Calls)]

\* FindModule's CHECK holds for every list.
FlagsRight ==
  /\ \A m \in Internal : nm_flags[m] = "NM_F_INTERNAL"
  /\ \A i \in DOMAIN modlist_linked : nm_flags[modlist_linked[i]] = "NM_F_LINKED"
  /\ \A e \in Environments : \A i \in DOMAIN extra_linked_bindings[e] :
       nm_flags[extra_linked_bindings[e][i]] = "NM_F_LINKED"

CacheNamed ==
  \A e \in Environments, name \in Names :
    internalCache[e][name] # None => Name[internalCache[e][name]] = name

\* The call has not passed the nearest list with its name, which still has it.
InReach(e, call) ==
  /\ call.at <= call.nearest
  /\ call.nearest <= Len(Chain[e]) =>
       FindModule(extra_linked_bindings[Chain[e][call.nearest]], call.name) # None

\* While it looks for the module no object is in the cache; afterwards its
\* initializer is not newer than the one whose object is there.
NotLater(cache, count, call) ==
  /\ call.pc = "walk" => ~IsObject(cache[call.name])
  /\ call.pc = "initializer" =>
       /\ call.module # None /\ call.run <= count
       /\ IsObject(cache[call.name]) => call.run <= cache[call.name].run

\* Only the innermost call looks for its module, and the others' initializers
\* started one after the other.
Nested(calls) ==
  \A i, j \in DOMAIN calls : i < j =>
    /\ calls[i].pc = "initializer"
    /\ calls[j].pc = "initializer" => calls[i].run < calls[j].run

CallsInOrder ==
  \A e \in Environments :
    /\ Nested(frames[e])
    /\ \A i \in DOMAIN frames[e] : InReach(e, frames[e][i]) /\ NotLater(linkedCache[e], runs, frames[e][i])

IInv == Types /\ FlagsRight /\ LoadListExact /\ ~aborted /\ CacheNamed /\ BindingConfined /\ CallsInOrder

-----------------------------------------------------------------------------
(* Sequences.                                                              *)

\* A longer sequence has the old elements and the new one.
LEMMA AppendFacts ==
  ASSUME NEW S, NEW s \in Seq(S), NEW e \in S
  PROVE  /\ Append(s, e) \in Seq(S)
         /\ DOMAIN s = 1 .. Len(s) /\ Len(s) \in Nat
         /\ DOMAIN Append(s, e) = 1 .. Len(s) + 1
         /\ \A i \in 1 .. Len(s) : Append(s, e)[i] = s[i]
         /\ Append(s, e)[Len(s) + 1] = e
BY AppendProperties, LenProperties

\* A sequence without its last element has the others.
LEMMA FrontFacts ==
  ASSUME NEW S, NEW s \in Seq(S), s # <<>>
  PROVE  /\ Len(s) \in Nat \ {0} /\ DOMAIN s = 1 .. Len(s)
         /\ Last(s) \in S /\ Last(s) = s[Len(s)]
         /\ Front(s) \in Seq(S)
         /\ DOMAIN Front(s) = 1 .. Len(s) - 1
         /\ \A i \in 1 .. Len(s) - 1 : Front(s)[i] = s[i]
<1>1. Len(s) \in Nat \ {0} /\ DOMAIN s = 1 .. Len(s)
  BY EmptySeq, LenProperties
<1>2. \A i \in 1 .. Len(s) : s[i] \in S
  BY ElementOfSeq
<1>3. /\ Front(s) \in Seq(S)
      /\ Len(Front(s)) = Len(s) - 1
      /\ \A i \in 1 .. Len(s) - 1 : Front(s)[i] = s[i]
  BY <1>1, <1>2, SubSeqProperties DEF Front
<1>4. DOMAIN Front(s) = 1 .. Len(s) - 1
  BY <1>3, LenProperties
<1> QED
  BY <1>1, <1>2, <1>3, <1>4 DEF Last

\* A set of natural numbers has a smallest member, and Min is that.
LEMMA MinFacts ==
  ASSUME NEW S \in SUBSET Nat, S # {}
  PROVE  Min(S) \in S /\ \A n \in S : Min(S) <= n
<1>1. OpToRel(<, Nat) = {ss \in Nat \X Nat : ss[1] < ss[2]}
  BY Zenon DEF OpToRel
<1>2. PICK m \in S : \A n \in S : <<n, m>> \notin {ss \in Nat \X Nat : ss[1] < ss[2]}
  BY <1>1, NatLessThanWellFounded, WFMin
<1>3. ASSUME NEW n \in S PROVE m <= n
  <2>1. <<n, m>> \in Nat \X Nat /\ <<n, m>>[1] = n /\ <<n, m>>[2] = m
    OBVIOUS
  <2>2. ~(n < m)
    BY <1>2, <2>1, Zenon
  <2> QED
    BY <2>2
<1> QED
  BY <1>3 DEF Min

-----------------------------------------------------------------------------
\* The three kinds of modules, as the steps below need them.
LEMMA Constants ==
  /\ \A m \in Internal : m \in Modules /\ m \notin Linked /\ m \notin Extra /\ m # None
  /\ \A m \in Linked \cup Extra : m \in Modules /\ m # None
  /\ MaxRuns \in Nat /\ MaxDepth \in Nat
BY BindingsAssumption

\* The ancestry of an environment is a sequence of environments.
LEMMA ChainFacts ==
  ASSUME NEW e \in Environments
  PROVE  Chain[e] \in Seq(Environments) /\ Len(Chain[e]) \in Nat
<1>1. Cardinality(Environments) \in Nat
  BY WorkersAssumption, FS_CardinalityType
<1>2. Chain[e] \in Ancestries
  BY WorkersAssumption DEF Chain
<1>3. PICK n \in 0 .. Cardinality(Environments) : Chain[e] \in [1 .. n -> Environments]
  BY <1>2 DEF Ancestries, BoundedSeq, SeqOf
<1>4. n \in Nat
  BY <1>1
<1>5. Chain[e] \in Seq(Environments)
  BY <1>3, <1>4, SeqDef
<1> QED
  BY <1>5, LenProperties

\* The internal modules, in any order, are a list of them.
LEMMA InternalList == SetToSeq(Internal) \in Seq(Internal)
<1>1. /\ Cardinality(Internal) \in Nat
      /\ ExistsBijection(1 .. Cardinality(Internal), Internal)
  BY BindingsAssumption, FS_CardinalityType
<1>2. \E f \in [1 .. Cardinality(Internal) -> Internal] : IsInjective(f)
  BY <1>1 DEF ExistsBijection, Bijection, Injection, IsInjective
<1>3. SetToSeq(Internal) \in [1 .. Cardinality(Internal) -> Internal]
  BY <1>2 DEF SetToSeq
<1> QED
  BY <1>1, <1>3, SeqDef

\* FindModule returns a module of the list that has the name, or None if the
\* list has none.
LEMMA FindModuleFacts ==
  ASSUME NEW S \in SUBSET Modules, NEW list \in Seq(S), NEW name
  PROVE  /\ FindModule(list, name) # None =>
              /\ FindModule(list, name) \in S
              /\ Name[FindModule(list, name)] = name
              /\ \E i \in DOMAIN list : FindModule(list, name) = list[i]
         /\ FindModule(list, name) = None <=> \A i \in DOMAIN list : Name[list[i]] # name
<1> DEFINE I == {i \in 1 .. Len(list) : Name[list[i]] = name}
<1>1. Len(list) \in Nat /\ DOMAIN list = 1 .. Len(list) /\ \A i \in 1 .. Len(list) : list[i] \in S
  BY LenProperties, ElementOfSeq
<1>2. FindModule(list, name) = LET found == IF I # {} THEN Min(I) ELSE 0
                               IN IF found = 0 THEN None ELSE list[found]
  BY DEF FindModule, SelectInSeq
<1>3. CASE I = {}
  BY <1>1, <1>2, <1>3
<1>4. CASE I # {}
  <2> I \in SUBSET Nat
    BY <1>1
  <2>1. Min(I) \in I
    <3> HIDE DEF I
    <3> QED
      BY <1>4, MinFacts
  <2>2. FindModule(list, name) = list[Min(I)]
    BY <1>1, <1>2, <1>4, <2>1
  <2>3. list[Min(I)] \in S /\ Name[list[Min(I)]] = name /\ None \notin S
    BY <1>1, <2>1, BindingsAssumption
  <2> QED
    BY <1>1, <2>1, <2>2, <2>3
<1> QED
  BY <1>3, <1>4

\* A list that grows at its end keeps the names that it has.
LEMMA FoundStays ==
  ASSUME NEW S \in SUBSET Modules, NEW list \in Seq(S), NEW m \in S, NEW name,
         FindModule(list, name) # None
  PROVE  FindModule(Append(list, m), name) # None
<1>1. /\ Append(list, m) \in Seq(S) /\ DOMAIN list = 1 .. Len(list) /\ Len(list) \in Nat
      /\ DOMAIN Append(list, m) = 1 .. Len(list) + 1
      /\ \A i \in 1 .. Len(list) : Append(list, m)[i] = list[i]
  BY AppendFacts
<1>2. PICK i \in 1 .. Len(list) : Name[list[i]] = name
  BY <1>1, FindModuleFacts
<1> DEFINE longer == Append(list, m)
<1>3. longer \in Seq(S) /\ i \in DOMAIN longer /\ Name[longer[i]] = name
  BY <1>1, <1>2
<1> HIDE DEF longer
<1>4. FindModule(longer, name) # None
  BY <1>3, FindModuleFacts
<1> QED
  BY <1>4 DEF longer

\* The nearest list is one of the environment's, which has the name, or comes
\* after them.
LEMMA NearestFacts ==
  ASSUME NEW e \in Environments, NEW name
  PROVE  /\ Nearest(e, name) \in Nat \ {0}
         /\ Nearest(e, name) <= Len(Chain[e]) =>
              FindModule(extra_linked_bindings[Chain[e][Nearest(e, name)]], name) # None
<1> DEFINE I == {i \in 1 .. Len(Chain[e]) : FindModule(extra_linked_bindings[Chain[e][i]], name) # None}
           last == Len(Chain[e]) + (IF FindModule(modlist_linked, name) # None THEN 1 ELSE 2)
<1>1. Len(Chain[e]) \in Nat
  BY ChainFacts
<1>2. Nearest(e, name) = LET found == IF I # {} THEN Min(I) ELSE 0
                         IN IF found # 0 THEN found ELSE last
  BY DEF Nearest, SelectInSeq
<1>3. CASE I = {}
  <2>1. Nearest(e, name) = last
    BY <1>2, <1>3
  <2>2. last = Len(Chain[e]) + 1 \/ last = Len(Chain[e]) + 2
    OBVIOUS
  <2> HIDE DEF last
  <2>3. last \in Nat \ {0} /\ ~(last <= Len(Chain[e]))
    BY <1>1, <2>2
  <2> QED
    BY <2>1, <2>3
<1>4. CASE I # {}
  <2> I \in SUBSET Nat
    BY <1>1
  <2>1. Min(I) \in I
    <3> HIDE DEF I
    <3> QED
      BY <1>4, MinFacts
  <2>2. Min(I) \in Nat \ {0}
    BY <1>1, <2>1
  <2>3. Nearest(e, name) = Min(I)
    BY <1>2, <1>4, <2>2
  <2> QED
    BY <2>1, <2>2, <2>3
<1> QED
  BY <1>3, <1>4

-----------------------------------------------------------------------------
\* The stacks are sequences of calls.
LEMMA CallFacts ==
  ASSUME Types, NEW e \in Environments
  PROVE  /\ frames[e] \in Seq(Calls) /\ Len(frames[e]) \in Nat
         /\ DOMAIN frames[e] = 1 .. Len(frames[e])
         /\ \A i \in 1 .. Len(frames[e]) : frames[e][i] \in Calls
BY LenProperties, ElementOfSeq DEF Types

\* The innermost call, and what changes when it does.
LEMMA TopFacts ==
  ASSUME Types, NEW e \in Environments, frames[e] # <<>>
  PROVE  /\ Len(frames[e]) \in Nat \ {0} /\ Last(frames[e]) = frames[e][Len(frames[e])]
         /\ Last(frames[e]) \in Calls
BY CallFacts, FrontFacts

\* Only the innermost call changes.
LEMMA SetTopFacts ==
  ASSUME Types, NEW e \in Environments, frames[e] # <<>>, NEW call \in Calls, SetTop(e, call)
  PROVE  /\ frames' \in [Environments -> Seq(Calls)]
         /\ \A d \in Environments : Len(frames'[d]) = Len(frames[d])
         /\ \A d \in Environments \ {e} : frames'[d] = frames[d]
         /\ DOMAIN frames'[e] = 1 .. Len(frames[e])
         /\ frames'[e][Len(frames[e])] = call
         /\ \A i \in 1 .. Len(frames[e]) - 1 : frames'[e][i] = frames[e][i]
<1> DEFINE top == Len(frames[e])
           calls == [frames[e] EXCEPT ![top] = call]
<1>1. frames' = [frames EXCEPT ![e] = calls]
  BY DEF SetTop
<1>2. top \in 1 .. top /\ top \in Nat /\ frames[e] \in Seq(Calls)
  BY TopFacts, CallFacts
<1>3. /\ calls \in Seq(Calls) /\ Len(calls) = top
      /\ \A j \in 1 .. top : calls[j] = IF j = top THEN call ELSE frames[e][j]
  BY <1>2, ExceptSeq
<1>4. DOMAIN calls = 1 .. top
  BY <1>3, LenProperties
<1> HIDE DEF calls
<1>5. frames'[e] = calls /\ \A d \in Environments \ {e} : frames'[d] = frames[d]
  BY <1>1 DEF Types
<1>6. frames' \in [Environments -> Seq(Calls)]
  BY <1>1, <1>3 DEF Types
<1>7. \A i \in 1 .. top - 1 : i \in 1 .. top /\ i # top
  BY <1>2
<1> QED
  BY <1>2, <1>3, <1>4, <1>5, <1>6, <1>7

\* The innermost call ends: the others are those that called, each before the
\* next.
LEMMA PopFacts ==
  ASSUME Types, CallsInOrder, NEW e \in Environments, frames[e] # <<>>, Pop(e)
  PROVE  /\ frames' \in [Environments -> Seq(Calls)]
         /\ \A d \in Environments : Len(frames'[d]) <= MaxDepth /\ Nested(frames'[d])
         /\ \A d \in Environments, i \in Nat : i \in DOMAIN frames'[d] =>
              /\ i \in DOMAIN frames[d] /\ frames'[d][i] = frames[d][i]
              /\ d = e => /\ frames[e][i].pc = "initializer"
                          /\ Last(frames[e]).pc = "initializer" =>
                               frames[e][i].run < Last(frames[e]).run
<1>1. /\ Len(frames[e]) \in Nat \ {0} /\ DOMAIN frames[e] = 1 .. Len(frames[e])
      /\ Last(frames[e]) = frames[e][Len(frames[e])]
      /\ Front(frames[e]) \in Seq(Calls)
      /\ DOMAIN Front(frames[e]) = 1 .. Len(frames[e]) - 1
      /\ \A i \in 1 .. Len(frames[e]) - 1 : Front(frames[e])[i] = frames[e][i]
  BY CallFacts, FrontFacts
<1> DEFINE rest == Front(frames[e])
<1>2. Len(rest) = Len(frames[e]) - 1
  <2>1. Len(rest) \in Nat /\ DOMAIN rest = 1 .. Len(rest)
    BY <1>1, LenProperties
  <2> HIDE DEF rest
  <2> QED
    BY <1>1, <2>1 DEF rest
<1> HIDE DEF rest
<1>3. frames' = [frames EXCEPT ![e] = rest]
  BY DEF Pop, rest
<1>4. frames'[e] = rest /\ \A d \in Environments \ {e} : frames'[d] = frames[d]
  BY <1>3 DEF Types
<1>5. frames' \in [Environments -> Seq(Calls)]
  BY <1>1, <1>3 DEF Types, rest
<1>6. ASSUME NEW d \in Environments PROVE Len(frames'[d]) <= MaxDepth
  <2>1. Len(frames[d]) <= MaxDepth /\ MaxDepth \in Nat
    BY BindingsAssumption DEF Types, TypeOK
  <2>2. CASE d = e
    BY <1>1, <1>2, <1>4, <2>1, <2>2
  <2>3. CASE d # e
    BY <1>4, <2>1, <2>3
  <2> QED
    BY <2>2, <2>3
<1>7. ASSUME NEW d \in Environments PROVE Nested(frames'[d])
  <2>1. CASE d = e
    <3>1. Nested(frames[e])
      BY DEF CallsInOrder
    <3>2. /\ DOMAIN rest \subseteq DOMAIN frames[e]
          /\ \A i \in DOMAIN rest : rest[i] = frames[e][i]
      BY <1>1 DEF rest
    <3>3. Nested(rest)
      BY <3>1, <3>2 DEF Nested
    <3> QED
      BY <1>4, <2>1, <3>3
  <2>2. CASE d # e
    BY <1>4, <2>2 DEF CallsInOrder
  <2> QED
    BY <2>1, <2>2
<1>8. \A d \in Environments, i \in Nat : i \in DOMAIN frames'[d] =>
        i \in DOMAIN frames[d] /\ frames'[d][i] = frames[d][i]
  BY <1>1, <1>4 DEF rest
<1>9. ASSUME NEW i \in Nat, i \in DOMAIN frames'[e]
      PROVE  /\ frames[e][i].pc = "initializer"
             /\ Last(frames[e]).pc = "initializer" => frames[e][i].run < Last(frames[e]).run
  BY <1>1, <1>4, <1>9 DEF rest, CallsInOrder, Nested
<1> QED
  BY <1>5, <1>6, <1>7, <1>8, <1>9

-----------------------------------------------------------------------------
\* At the start the lists and the caches are empty.
LEMMA InitIInv == Init => IInv
<1> SUFFICES ASSUME Init PROVE IInv
  OBVIOUS
<1> USE DEF Init
<1>1. \A S : <<>> \in Seq(S) /\ Len(<<>>) = 0 /\ DOMAIN <<>> = {}
  BY EmptySeq
<1>2. Types
  <2>1. \A e \in Environments : frames[e] = <<>> /\ Len(frames[e]) <= MaxDepth
    BY <1>1, Constants
  <2>2. Nothing \in [module : Linked \cup Extra \cup {None}, run : Nat]
    BY DEF Nothing
  <2>3. runs \in 0 .. MaxRuns
    BY Constants
  <2>4. nm_flags \in [Modules -> {"none", "NM_F_INTERNAL", "NM_F_LINKED"}]
    OBVIOUS
  <2>5. frames \in [Environments -> Seq(Calls)]
    BY <1>1
  <2> QED
    BY <1>1, <2>1, <2>2, <2>3, <2>4, <2>5 DEF Types, TypeOK
<1>3. LoadListExact
  BY <1>1 DEF LoadListExact, ToSet, IsInjective
<1>4. FlagsRight
  BY <1>1, Constants DEF FlagsRight
<1>5. CacheNamed /\ BindingConfined
  BY DEF CacheNamed, BindingConfined
<1>6. CallsInOrder
  <2>1. \A e \in Environments : frames[e] = <<>>
    OBVIOUS
  <2> QED
    BY <1>1, <2>1 DEF CallsInOrder, Nested
<1> QED
  BY <1>2, <1>3, <1>4, <1>5, <1>6 DEF IInv

\* What stays true of the calls when no stack, no list and no cache changes.
LEMMA CallsKept ==
  ASSUME CallsInOrder, UNCHANGED <<frames, extra_linked_bindings, linkedCache, runs>>
  PROVE  CallsInOrder'
BY DEF CallsInOrder, Nested, InReach, NotLater

LEMMA RealmKept ==
  ASSUME LoadListExact, CacheNamed, UNCHANGED realm
  PROVE  LoadListExact' /\ CacheNamed'
BY DEF LoadListExact, CacheNamed, realm

\* A static constructor registers a linked module.
LEMMA RegisterLinkedKeeps ==
  ASSUME IInv, NEW m \in Modules, RegisterLinked(m)
  PROVE  IInv'
<1> USE Constants DEF IInv
<1>1. /\ m \in Linked /\ modlist_linked' = <<m>> \o modlist_linked
      /\ nm_flags' = [nm_flags EXCEPT ![m] = "NM_F_LINKED"]
      /\ UNCHANGED <<modlist_internal, node_is_initialized, extra_linked_bindings,
                     realm, linkedCache, frames, runs, reached, aborted>>
  BY DEF RegisterLinked, FlaggedLinked
<1> DEFINE one == <<m>>
<1>2. one \in Seq(Linked) /\ Len(one) = 1 /\ one[1] = m
  BY <1>1
<1> HIDE DEF one
<1>3. /\ modlist_linked' \in Seq(Linked)
      /\ Len(modlist_linked') = 1 + Len(modlist_linked)
      /\ \A i \in 1 .. 1 + Len(modlist_linked) :
           modlist_linked'[i] = IF i <= 1 THEN one[i] ELSE modlist_linked[i - 1]
  BY <1>1, <1>2, ConcatProperties DEF one, Types, TypeOK
<1>4. /\ Len(modlist_linked) \in Nat /\ DOMAIN modlist_linked = 1 .. Len(modlist_linked)
      /\ DOMAIN modlist_linked' = 1 .. 1 + Len(modlist_linked)
  BY <1>3, LenProperties DEF Types, TypeOK
<1>5. ASSUME NEW i \in DOMAIN modlist_linked'
      PROVE  modlist_linked'[i] = m \/ \E j \in DOMAIN modlist_linked : modlist_linked'[i] = modlist_linked[j]
  <2>1. CASE i = 1
    BY <1>2, <1>3, <1>4, <2>1
  <2>2. CASE i # 1
    <3>1. i - 1 \in DOMAIN modlist_linked /\ modlist_linked'[i] = modlist_linked[i - 1]
      BY <1>3, <1>4, <2>2
    <3> QED
      BY <3>1
  <2> QED
    BY <2>1, <2>2
<1>6. Types'
  BY <1>1, <1>3 DEF Types, TypeOK, realm
<1>7. \A x \in Modules : nm_flags'[x] = IF x = m THEN "NM_F_LINKED" ELSE nm_flags[x]
  BY <1>1 DEF Types, TypeOK
<1>8. FlagsRight'
  <2>1. \A x \in Internal : nm_flags'[x] = "NM_F_INTERNAL"
    BY <1>1, <1>7 DEF FlagsRight
  <2>2. \A i \in DOMAIN modlist_linked' : nm_flags'[modlist_linked'[i]] = "NM_F_LINKED"
    <3>1. \A j \in DOMAIN modlist_linked : modlist_linked[j] \in Linked
      BY <1>4, ElementOfSeq DEF Types, TypeOK
    <3> QED
      BY <1>1, <1>5, <1>7, <3>1 DEF FlagsRight
  <2>3. \A e \in Environments : \A i \in DOMAIN extra_linked_bindings[e] :
          nm_flags'[extra_linked_bindings[e][i]] = "NM_F_LINKED"
    <3>1. \A e \in Environments : \A j \in DOMAIN extra_linked_bindings[e] :
            extra_linked_bindings[e][j] \in Extra
      BY LenProperties, ElementOfSeq DEF Types, TypeOK
    <3> QED
      BY <1>7, <3>1 DEF FlagsRight
  <2> QED
    BY <1>1, <2>1, <2>2, <2>3 DEF FlagsRight
<1> QED
  BY <1>1, <1>6, <1>8, CallsKept, RealmKept DEF BindingConfined

\* The internal modules are registered.
LEMMA RegisterBuiltinKeeps ==
  ASSUME IInv, RegisterBuiltinBindings
  PROVE  IInv'
<1> USE DEF IInv, RegisterBuiltinBindings
<1>1. Types'
  BY InternalList DEF Types, TypeOK, realm
<1>2. (FlagsRight /\ BindingConfined)'
  BY DEF FlagsRight, BindingConfined
<1> QED
  BY <1>1, <1>2, CallsKept, RealmKept

\* An embedder's list gets one module more: a search that goes on finds what
\* it would have found.
LEMMA AddLinkedKeeps ==
  ASSUME IInv, NEW d \in Environments, NEW m \in Modules, AddLinkedBinding(d, m)
  PROVE  IInv'
<1> USE Constants DEF IInv
<1> DEFINE longer == Append(extra_linked_bindings[d], m)
<1>1. /\ m \in Extra /\ extra_linked_bindings' = [extra_linked_bindings EXCEPT ![d] = longer]
      /\ nm_flags' = [nm_flags EXCEPT ![m] = "NM_F_LINKED"]
      /\ UNCHANGED <<modlist_internal, modlist_linked, node_is_initialized,
                     realm, linkedCache, frames, runs, reached, aborted>>
  BY DEF AddLinkedBinding
<1>2. \A e \in Environments : /\ extra_linked_bindings[e] \in Seq(Extra)
                              /\ \A i \in DOMAIN extra_linked_bindings[e] : extra_linked_bindings[e][i] \in Extra
  BY LenProperties, ElementOfSeq DEF Types, TypeOK
<1>3. /\ longer \in Seq(Extra)
      /\ DOMAIN extra_linked_bindings[d] = 1 .. Len(extra_linked_bindings[d])
      /\ Len(extra_linked_bindings[d]) \in Nat
      /\ DOMAIN longer = 1 .. Len(extra_linked_bindings[d]) + 1
      /\ \A i \in 1 .. Len(extra_linked_bindings[d]) : longer[i] = extra_linked_bindings[d][i]
      /\ longer[Len(extra_linked_bindings[d]) + 1] = m
  BY <1>1, <1>2, AppendFacts
<1>4. \A name : FindModule(extra_linked_bindings[d], name) # None => FindModule(longer, name) # None
  BY <1>1, <1>2, FoundStays
<1> HIDE DEF longer
<1>5. extra_linked_bindings'[d] = longer
      /\ \A e \in Environments \ {d} : extra_linked_bindings'[e] = extra_linked_bindings[e]
  BY <1>1 DEF Types, TypeOK
<1>6. Types'
  BY <1>1, <1>3 DEF Types, TypeOK, realm
<1>7. \A x \in Modules : nm_flags'[x] = IF x = m THEN "NM_F_LINKED" ELSE nm_flags[x]
  BY <1>1 DEF Types, TypeOK
<1>8. FlagsRight'
  <2>1. \A x \in Internal : nm_flags'[x] = "NM_F_INTERNAL"
    BY <1>1, <1>7 DEF FlagsRight
  <2>2. \A i \in DOMAIN modlist_linked : nm_flags'[modlist_linked[i]] = "NM_F_LINKED"
    <3>1. \A j \in DOMAIN modlist_linked : modlist_linked[j] \in Linked
      BY LenProperties, ElementOfSeq DEF Types, TypeOK
    <3> QED
      BY <1>1, <1>7, <3>1 DEF FlagsRight
  <2>3. ASSUME NEW e \in Environments, NEW i \in DOMAIN extra_linked_bindings'[e]
        PROVE  nm_flags'[extra_linked_bindings'[e][i]] = "NM_F_LINKED"
    <3>1. CASE e # d
      BY <1>2, <1>5, <1>7, <2>3, <3>1 DEF FlagsRight
    <3>2. CASE e = d
      <4>1. \/ i \in DOMAIN extra_linked_bindings[d] /\ longer[i] = extra_linked_bindings[d][i]
            \/ longer[i] = m
        BY <1>3, <1>5, <2>3, <3>2
      <4> QED
        BY <1>1, <1>2, <1>5, <1>7, <3>2, <4>1 DEF FlagsRight
    <3> QED
      BY <3>1, <3>2
  <2> QED
    BY <1>1, <2>1, <2>2, <2>3 DEF FlagsRight
<1>9. CallsInOrder'
  <2>1. ASSUME NEW e \in Environments, NEW i \in DOMAIN frames[e]
        PROVE  InReach(e, frames[e][i])'
    <3> DEFINE call == frames[e][i]
    <3>1. call \in Calls /\ InReach(e, call)
      BY CallFacts DEF CallsInOrder
    <3>2. ASSUME call.nearest <= Len(Chain[e]) PROVE Chain[e][call.nearest] \in Environments
      BY <3>1, <3>2, ChainFacts, ElementOfSeq DEF Calls
    <3>3. call' = call
      BY <1>1
    <3> QED
      BY <1>4, <1>5, <3>1, <3>2, <3>3 DEF InReach
  <2> QED
    BY <1>1, <2>1 DEF CallsInOrder, Nested, NotLater
<1> QED
  BY <1>1, <1>6, <1>8, <1>9, RealmKept DEF BindingConfined

-----------------------------------------------------------------------------
\* An internal module that was not in the cache is initialized now, and was
\* not before.
LEMMA InternalBindingKeeps ==
  ASSUME IInv, NEW e \in Environments, NEW name \in Names, InternalBinding(e, name)
  PROVE  /\ internalCache' \in [Environments -> [Names -> Internal \cup {None}]]
         /\ internal_bindings' \in [Environments -> SUBSET Internal]
         /\ moduleLoadList' \in [Environments -> Seq(Internal)]
         /\ aborted' = FALSE /\ LoadListExact' /\ CacheNamed'
<1> USE Constants DEF IInv
<1> DEFINE m == FindModule(modlist_internal, name)
<1>1. CASE UNCHANGED <<realm, aborted>>
  BY <1>1, RealmKept DEF realm, Types, TypeOK
<1>2. CASE ~UNCHANGED <<realm, aborted>>
  <2>1. /\ internalCache[e][name] = None /\ m # None
        /\ aborted' = ~Flagged(m, "NM_F_INTERNAL")
        /\ internalCache' = [internalCache EXCEPT ![e][name] = m]
        /\ internal_bindings' = [internal_bindings EXCEPT ![e] = @ \cup {m}]
        /\ moduleLoadList' = [moduleLoadList EXCEPT ![e] = Append(@, m)]
    BY <1>2 DEF InternalBinding, Remembered, CacheWith
  <2>2. m \in Internal /\ Name[m] = name
    <3>1. modlist_internal \in Seq(Internal) /\ Internal \in SUBSET Modules
      BY DEF Types, TypeOK
    <3> QED
      BY <2>1, <3>1, FindModuleFacts
  <2> HIDE DEF m
  <2>3. aborted' = FALSE
    BY <2>1, <2>2 DEF Flagged, FlagsRight
  <2> DEFINE old == moduleLoadList[e]
             new == Append(old, m)
  <2>4. /\ DOMAIN old = 1 .. Len(old) /\ Len(old) \in Nat
        /\ new \in Seq(Internal) /\ DOMAIN new = 1 .. Len(old) + 1
        /\ \A i \in 1 .. Len(old) : new[i] = old[i]
        /\ new[Len(old) + 1] = m
    BY <2>2, AppendFacts DEF Types, TypeOK
  <2> HIDE DEF new
  <2>5. /\ moduleLoadList'[e] = new
        /\ internal_bindings'[e] = internal_bindings[e] \cup {m}
        /\ internalCache'[e] = [internalCache[e] EXCEPT ![name] = m]
        /\ internalCache'[e][name] = m
        /\ \A n \in Names \ {name} : internalCache'[e][n] = internalCache[e][n]
    BY <2>1 DEF Types, TypeOK, new
  <2>6. \A d \in Environments \ {e} : /\ moduleLoadList'[d] = moduleLoadList[d]
                                     /\ internal_bindings'[d] = internal_bindings[d]
                                     /\ internalCache'[d] = internalCache[d]
    BY <2>1 DEF Types, TypeOK
  <2>7. /\ internalCache' \in [Environments -> [Names -> Internal \cup {None}]]
        /\ internal_bindings' \in [Environments -> SUBSET Internal]
        /\ moduleLoadList' \in [Environments -> Seq(Internal)]
    <3>1. internalCache' \in [Environments -> [Names -> Internal \cup {None}]]
      BY <2>1, <2>2 DEF Types, TypeOK
    <3>2. internal_bindings' \in [Environments -> SUBSET Internal]
      BY <2>1, <2>2 DEF Types, TypeOK
    <3>3. moduleLoadList' \in [Environments -> Seq(Internal)]
      BY <2>1, <2>4 DEF Types, TypeOK, new
    <3> QED
      BY <3>1, <3>2, <3>3
  <2>8. m \notin internal_bindings[e]
    BY <2>1, <2>2 DEF LoadListExact, CacheNamed
  <2>9. CacheNamed'
    <3> SUFFICES ASSUME NEW d \in Environments, NEW n \in Names, internalCache'[d][n] # None
                 PROVE  Name[internalCache'[d][n]] = n
      BY DEF CacheNamed
    <3>1. (internalCache'[d][n] = m /\ n = name) \/ internalCache'[d][n] = internalCache[d][n]
      BY <2>5, <2>6
    <3> QED
      BY <2>2, <3>1 DEF CacheNamed
  <2>10. ToSet(new) = ToSet(old) \cup {m} /\ IsInjective(new)
    BY <2>4, <2>8 DEF LoadListExact, ToSet, IsInjective
  <2>11. internal_bindings'[e] = {internalCache'[e][n] : n \in Names} \ {None}
    <3>1. {internalCache'[e][n] : n \in Names} \ {None}
            = ({internalCache[e][n] : n \in Names} \ {None}) \cup {m}
      BY <2>1, <2>2, <2>5
    <3> QED
      BY <2>5, <3>1 DEF LoadListExact
  <2>12. LoadListExact'
    <3> SUFFICES ASSUME NEW d \in Environments
                 PROVE  /\ ToSet(moduleLoadList'[d]) = internal_bindings'[d] /\ IsInjective(moduleLoadList'[d])
                        /\ internal_bindings'[d] = {internalCache'[d][n] : n \in Names} \ {None}
      BY DEF LoadListExact
    <3>1. CASE d = e
      <4>1. ToSet(old) = internal_bindings[e]
        BY DEF LoadListExact
      <4>2. ToSet(moduleLoadList'[e]) = internal_bindings'[e] /\ IsInjective(moduleLoadList'[e])
        BY <2>5, <2>10, <4>1
      <4> QED
        BY <2>11, <3>1, <4>2
    <3>2. CASE d # e
      BY <2>6, <3>2 DEF LoadListExact
    <3> QED
      BY <3>1, <3>2
  <2> QED
    BY <2>3, <2>7, <2>9, <2>12
<1> QED
  BY <1>1, <1>2

\* A built-in module asks for a binding.
LEMMA BuiltinAsksKeeps ==
  ASSUME IInv, NEW e \in Environments, NEW name \in Names, BuiltinAsks(e, name)
  PROVE  IInv'
<1> USE DEF IInv
<1>1. UNCHANGED <<lists, linkedCache, frames, runs, reached>> /\ InternalBinding(e, name)
  BY DEF BuiltinAsks
<1>2. Types'
  BY <1>1, InternalBindingKeeps DEF Types, TypeOK, lists
<1>3. (FlagsRight /\ BindingConfined)'
  BY <1>1 DEF FlagsRight, BindingConfined, lists
<1>4. CallsInOrder'
  BY <1>1, CallsKept DEF lists
<1> QED
  BY <1>1, <1>2, <1>3, <1>4, InternalBindingKeeps

\* A program asks for one: a linked binding from the cache, or an internal one
\* that is allowed.
LEMMA BindingKeeps ==
  ASSUME IInv, NEW e \in Environments, NEW name \in Names, Binding(e, name)
  PROVE  IInv'
<1> USE DEF IInv
<1> DEFINE m == FindModule(modlist_internal, name)
           c == Cached(e, name)
<1>1. UNCHANGED <<lists, linkedCache, frames, runs>>
  BY DEF Binding
<1>2. (FlagsRight /\ CallsInOrder)'
  BY <1>1, CallsKept DEF FlagsRight, lists
<1>3. CASE c # None
  <2>1. reached' = [reached EXCEPT ![e] = @ \cup ({c} \cap Internal)] /\ UNCHANGED <<realm, aborted>>
    BY <1>3 DEF Binding
  <2>2. {c} \cap Internal = {}
    BY <1>3, Constants DEF Cached, Types, TypeOK
  <2>3. reached' = reached
    BY <2>1, <2>2 DEF Types, TypeOK
  <2>4. (Types /\ BindingConfined)'
    BY <1>1, <2>1, <2>3 DEF Types, TypeOK, BindingConfined, lists, realm
  <2> QED
    BY <1>2, <2>1, <2>4, RealmKept
<1>4. CASE c = None
  <2>1. /\ InternalBinding(e, name) /\ name \in processBindingAllowList
        /\ reached' = [reached EXCEPT ![e] = @ \cup ({m} \ {None})]
    BY <1>4 DEF Binding
  <2>2. m # None => m \in Internal /\ Name[m] = name
    <3>1. modlist_internal \in Seq(Internal) /\ Internal \in SUBSET Modules
      BY Constants DEF Types, TypeOK
    <3> QED
      BY <3>1, FindModuleFacts
  <2> HIDE DEF m
  <2>3. reached' \in [Environments -> SUBSET Internal]
    BY <2>1, <2>2 DEF Types, TypeOK
  <2>4. Types'
    BY <1>1, <2>1, <2>3, InternalBindingKeeps DEF Types, TypeOK, lists
  <2>5. BindingConfined'
    BY <2>1, <2>2 DEF BindingConfined, Types, TypeOK
  <2> QED
    BY <1>2, <2>1, <2>4, <2>5, InternalBindingKeeps
<1> QED
  BY <1>3, <1>4

-----------------------------------------------------------------------------
\* A call of _linkedBinding starts: the one around it runs an initializer.
LEMMA LinkedBindingKeeps ==
  ASSUME IInv, NEW e \in Environments, NEW name \in Names, LinkedBinding(e, name)
  PROVE  IInv'
<1> USE DEF IInv
<1>1. UNCHANGED <<lists, realm, linkedCache, runs, reached, aborted>>
  BY DEF LinkedBinding
<1>2. (FlagsRight /\ LoadListExact /\ ~aborted /\ CacheNamed /\ BindingConfined)'
  BY <1>1, RealmKept DEF FlagsRight, BindingConfined, lists
<1>3. CASE UNCHANGED frames
  BY <1>1, <1>2, <1>3, CallsKept DEF Types, TypeOK, lists, realm
<1>4. CASE ~UNCHANGED frames
  <2> DEFINE call == [pc |-> "walk", name |-> name, at |-> FirstIsOwn, module |-> None, run |-> 0,
                      nearest |-> Nearest(e, name)]
             calls == Append(frames[e], call)
             n == Len(frames[e])
  <2>1. /\ ~IsObject(linkedCache[e][name]) /\ n < MaxDepth
        /\ frames' = [frames EXCEPT ![e] = calls]
        /\ frames[e] # <<>> => Last(frames[e]).pc = "initializer"
    BY <1>4 DEF LinkedBinding, InCache, Runs
  <2>2. call \in Calls
    BY NearestFacts DEF Calls, FirstIsOwn
  <2>3. InReach(e, call) /\ NotLater(linkedCache[e], runs, call)
    BY <2>1, NearestFacts DEF InReach, NotLater, FirstIsOwn
  <2>4. call.pc = "walk"
    OBVIOUS
  <2> HIDE DEF call
  <2>5. /\ calls \in Seq(Calls) /\ n \in Nat
        /\ DOMAIN frames[e] = 1 .. n /\ DOMAIN calls = 1 .. n + 1
        /\ \A i \in 1 .. n : calls[i] = frames[e][i]
        /\ calls[n + 1] = call
    BY <2>2, AppendFacts DEF Types
  <2>6. Len(calls) <= MaxDepth
    <3>1. Len(calls) \in Nat /\ DOMAIN calls = 1 .. Len(calls)
      BY <2>5, LenProperties
    <3> HIDE DEF calls
    <3> QED
      BY <2>1, <2>5, <3>1, Constants
  <2> HIDE DEF calls
  <2>7. frames'[e] = calls /\ \A d \in Environments \ {e} : frames'[d] = frames[d]
    BY <2>1 DEF Types
  <2>8. frames' \in [Environments -> Seq(Calls)]
    BY <2>1, <2>5 DEF Types
  <2>9. Types'
    <3>1. \A d \in Environments : Len(frames'[d]) <= MaxDepth
      BY <2>6, <2>7 DEF Types, TypeOK
    <3> QED
      BY <1>1, <2>8, <3>1 DEF Types, TypeOK, lists, realm
  <2>10. Nested(calls)
    <3> SUFFICES ASSUME NEW i \in DOMAIN calls, NEW j \in DOMAIN calls, i < j
                 PROVE  /\ calls[i].pc = "initializer"
                        /\ calls[j].pc = "initializer" => calls[i].run < calls[j].run
      BY DEF Nested
    <3>1. CASE j = n + 1
      <4>1. i \in 1 .. n /\ frames[e] # <<>> /\ calls[i] = frames[e][i]
        BY <2>5, <3>1, EmptySeq
      <4>2. frames[e][n].pc = "initializer"
        BY <2>1, <4>1, TopFacts
      <4>3. i < n => frames[e][i].pc = "initializer"
        BY <2>5, <4>1 DEF CallsInOrder, Nested
      <4> QED
        BY <2>4, <2>5, <3>1, <4>1, <4>2, <4>3
    <3>2. CASE j # n + 1
      <4>1. i \in 1 .. n /\ j \in 1 .. n
        BY <2>5, <3>2
      <4> QED
        BY <2>5, <4>1 DEF CallsInOrder, Nested
    <3> QED
      BY <3>1, <3>2
  <2>11. ASSUME NEW d \in Environments, NEW i \in DOMAIN frames'[d]
         PROVE  InReach(d, frames'[d][i]) /\ NotLater(linkedCache[d], runs, frames'[d][i])
    <3>1. CASE d # e
      BY <2>7, <2>11, <3>1 DEF CallsInOrder
    <3>2. CASE d = e /\ i # n + 1
      <4>1. i \in 1 .. n /\ frames'[d][i] = frames[e][i]
        BY <2>5, <2>7, <2>11, <3>2
      <4> QED
        BY <2>5, <3>2, <4>1 DEF CallsInOrder
    <3>3. CASE d = e /\ i = n + 1
      BY <2>3, <2>5, <2>7, <3>3
    <3> QED
      BY <3>1, <3>2, <3>3
  <2>12. CallsInOrder'
    <3>1. \A d \in Environments : Nested(frames'[d])
      BY <2>7, <2>10 DEF CallsInOrder
    <3> QED
      BY <1>1, <2>11, <3>1 DEF CallsInOrder, Nested, InReach, NotLater, lists
  <2> QED
    BY <1>1, <1>2, <2>9, <2>12
<1> QED
  BY <1>3, <1>4

\* A call ends without a change of the caches.
LEMMA PopKeeps ==
  ASSUME IInv, NEW e \in Environments, frames[e] # <<>>, Pop(e),
         UNCHANGED <<lists, realm, linkedCache, runs, reached, aborted>>
  PROVE  IInv'
<1> USE DEF IInv
<1>1. (FlagsRight /\ LoadListExact /\ ~aborted /\ CacheNamed /\ BindingConfined)'
  BY RealmKept DEF FlagsRight, BindingConfined, lists
<1>2. Types'
  BY PopFacts DEF Types, TypeOK, lists, realm
<1>3. \A d \in Environments : Nested(frames'[d])
  BY PopFacts
<1>4. ASSUME NEW d \in Environments, NEW i \in DOMAIN frames'[d]
      PROVE  InReach(d, frames'[d][i]) /\ NotLater(linkedCache[d], runs, frames'[d][i])
  <2>1. i \in Nat
    BY PopFacts, LenProperties
  <2> QED
    BY <1>4, <2>1, PopFacts DEF CallsInOrder
<1> QED
  BY <1>1, <1>2, <1>3, <1>4 DEF CallsInOrder, Nested, InReach, NotLater, lists

\* An initializer returns: its exports replace an object only if it started
\* before the one that made the object, and of the calls around it all
\* started earlier.
LEMMA ReturnKeeps ==
  ASSUME IInv, NEW e \in Environments, Return(e)
  PROVE  /\ IInv'
         /\ \A d \in Environments, name \in Names :
              IsObject(linkedCache[d][name]) => linkedCache'[d][name].run <= linkedCache[d][name].run
<1> USE DEF IInv
<1> DEFINE top == Last(frames[e])
<1>1. /\ frames[e] # <<>> /\ Pop(e) /\ top.pc = "initializer"
      /\ linkedCache' = [linkedCache EXCEPT ![e][top.name] = [module |-> top.module, run |-> top.run]]
      /\ UNCHANGED <<lists, realm, runs, reached, aborted>>
  BY DEF Return, Runs
<1>2. top \in Calls /\ NotLater(linkedCache[e], runs, top)
  BY <1>1, TopFacts, CallFacts DEF CallsInOrder
<1> HIDE DEF top
<1>3. /\ top.name \in Names /\ top.module \in Linked \cup Extra /\ top.run \in Nat
  BY <1>1, <1>2 DEF Calls, NotLater
<1>4. /\ linkedCache'[e][top.name] = [module |-> top.module, run |-> top.run]
      /\ \A d \in Environments, name \in Names :
           d # e \/ name # top.name => linkedCache'[d][name] = linkedCache[d][name]
      /\ linkedCache' \in [Environments -> [Names -> [module : Linked \cup Extra \cup {None}, run : Nat]]]
  BY <1>1, <1>3 DEF Types, TypeOK
<1>5. (FlagsRight /\ LoadListExact /\ ~aborted /\ CacheNamed /\ BindingConfined)'
  BY <1>1, RealmKept DEF FlagsRight, BindingConfined, lists
<1>6. Types'
  BY <1>1, <1>4, PopFacts DEF Types, TypeOK, lists, realm
<1>7. \A d \in Environments : Nested(frames'[d])
  BY <1>1, PopFacts
<1>8. ASSUME NEW d \in Environments, NEW i \in DOMAIN frames'[d]
      PROVE  InReach(d, frames'[d][i]) /\ NotLater(linkedCache'[d], runs', frames'[d][i])
  <2> DEFINE call == frames'[d][i]
  <2>1. i \in Nat
    BY <1>6, <1>8, LenProperties DEF Types
  <2>2. /\ i \in DOMAIN frames[d] /\ call = frames[d][i]
        /\ d = e => call.pc = "initializer" /\ call.run < top.run
    BY <1>1, <1>8, <2>1, PopFacts DEF top
  <2>3. call \in Calls /\ InReach(d, call) /\ NotLater(linkedCache[d], runs, call)
    BY <2>2, CallFacts DEF CallsInOrder
  <2> HIDE DEF call
  <2>4. InReach(d, call)
    BY <2>3
  <2>5. ASSUME d = e /\ call.name = top.name PROVE NotLater(linkedCache'[d], runs', call)
    <3>1. call.pc = "initializer" /\ call.run <= top.run /\ call.run <= runs /\ call.module # None
      BY <1>3, <2>2, <2>3, <2>5 DEF NotLater, Calls
    <3> QED
      <4>1. linkedCache'[d][call.name].run = top.run /\ runs' = runs
        BY <1>1, <1>4, <2>5
      <4> QED
        BY <3>1, <4>1 DEF NotLater
  <2>6. ASSUME ~(d = e /\ call.name = top.name) PROVE NotLater(linkedCache'[d], runs', call)
    <3>1. linkedCache'[d][call.name] = linkedCache[d][call.name]
      BY <1>4, <2>3, <2>6 DEF Calls
    <3> QED
      <4>1. runs' = runs
        BY <1>1
      <4> QED
        BY <2>3, <3>1, <4>1 DEF NotLater
  <2> QED
    BY <2>4, <2>5, <2>6 DEF call
<1>9. CallsInOrder'
  BY <1>1, <1>7, <1>8 DEF CallsInOrder, Nested, InReach, lists
<1>10. ASSUME NEW d \in Environments, NEW name \in Names, IsObject(linkedCache[d][name])
       PROVE  linkedCache'[d][name].run <= linkedCache[d][name].run
  <2>1. linkedCache[d][name].run \in Nat
    BY DEF Types, TypeOK
  <2>2. CASE d = e /\ name = top.name
    BY <1>1, <1>2, <1>4, <1>10, <2>2 DEF NotLater
  <2>3. CASE ~(d = e /\ name = top.name)
    BY <1>4, <2>1, <2>3
  <2> QED
    BY <2>2, <2>3
<1> QED
  BY <1>5, <1>6, <1>9, <1>10

\* The search looks at one list: what is there has the right flag, and as long
\* as it finds nothing, the nearest list with the name is still ahead.
LEMMA WalkKeeps ==
  ASSUME IInv, NEW e \in Environments, Walk(e)
  PROVE  IInv'
<1> USE DEF IInv
<1> DEFINE top == Last(frames[e])
           n == Len(frames[e])
           m == FindModule(List(e), top.name)
<1>1. /\ frames[e] # <<>> /\ top.pc = "walk"
      /\ aborted' = ~Flagged(m, "NM_F_LINKED")
      /\ UNCHANGED <<lists, realm, linkedCache, reached>>
  BY DEF Walk
<1>2. /\ n \in Nat \ {0} /\ top = frames[e][n] /\ top \in Calls
      /\ InReach(e, top) /\ NotLater(linkedCache[e], runs, top)
  BY <1>1, TopFacts, CallFacts DEF CallsInOrder
<1>3. /\ top.at <= Len(Chain[e]) => Chain[e][top.at] \in Environments
      /\ Len(Chain[e]) \in Nat
  BY <1>2, ChainFacts, ElementOfSeq DEF Calls
<1>4. /\ List(e) \in Seq(Linked \cup Extra)
      /\ \A i \in DOMAIN List(e) : nm_flags[List(e)[i]] = "NM_F_LINKED"
  <2>1. CASE top.at <= Len(Chain[e])
    <3>1. List(e) = extra_linked_bindings[Chain[e][top.at]]
      BY <2>1 DEF List
    <3>2. List(e) \in Seq(Extra)
      BY <1>3, <2>1, <3>1 DEF Types, TypeOK
    <3> QED
      BY <1>3, <2>1, <3>1, <3>2, SeqMonotonic DEF FlagsRight
  <2>2. CASE ~(top.at <= Len(Chain[e]))
    <3>1. List(e) = modlist_linked
      BY <2>2 DEF List
    <3> QED
      BY <3>1, SeqMonotonic DEF Types, TypeOK, FlagsRight
  <2> QED
    BY <2>1, <2>2
<1>5. m # None => m \in Linked \cup Extra /\ nm_flags[m] = "NM_F_LINKED"
  <2>1. Linked \cup Extra \in SUBSET Modules
    BY Constants
  <2> QED
    BY <1>4, <2>1, FindModuleFacts
<1>6. m = None /\ top.at <= Len(Chain[e]) =>
        top.at # top.nearest
  BY <1>2 DEF InReach, List
<1>7. aborted' = FALSE
  BY <1>1, <1>5 DEF Flagged
<1>8. (FlagsRight /\ LoadListExact /\ CacheNamed /\ BindingConfined)'
  BY <1>1, RealmKept DEF FlagsRight, BindingConfined, lists
<1> HIDE DEF top, m
\* A step that leaves the call on the stack.
<1>9. ASSUME NEW call \in Calls, SetTop(e, call), runs' \in {runs, runs + 1}, runs' \in 0 .. MaxRuns,
             InReach(e, call), NotLater(linkedCache'[e], runs', call),
             call.pc = "initializer" => call.run = runs + 1
      PROVE  IInv'
  <2>1. /\ frames' \in [Environments -> Seq(Calls)]
        /\ \A d \in Environments : Len(frames'[d]) = Len(frames[d])
        /\ \A d \in Environments \ {e} : frames'[d] = frames[d]
        /\ DOMAIN frames'[e] = 1 .. n /\ frames'[e][n] = call
        /\ \A i \in 1 .. n - 1 : frames'[e][i] = frames[e][i]
    BY <1>1, <1>9, SetTopFacts
  <2>2. runs \in Nat /\ runs <= runs'
    BY <1>9, Constants DEF Types, TypeOK
  <2>3. Types'
    BY <1>1, <1>7, <1>9, <2>1 DEF Types, TypeOK, lists, realm
  <2>4. DOMAIN frames[e] = 1 .. n /\ \A i \in 1 .. n : frames[e][i] \in Calls
    BY CallFacts
  <2>5. Nested(frames'[e])
    <3> SUFFICES ASSUME NEW i \in 1 .. n, NEW j \in 1 .. n, i < j
                 PROVE  /\ frames'[e][i].pc = "initializer"
                        /\ frames'[e][j].pc = "initializer" => frames'[e][i].run < frames'[e][j].run
      BY <2>1 DEF Nested
    <3>1. i \in 1 .. n - 1 /\ frames'[e][i] = frames[e][i]
      BY <1>2, <2>1
    <3>2. frames[e][i].pc = "initializer"
      BY <2>4 DEF CallsInOrder, Nested
    <3>3. frames[e][i].run \in Nat /\ frames[e][i].run <= runs
      BY <2>4, <3>2 DEF CallsInOrder, NotLater, Calls
    <3>4. CASE j = n
      BY <1>9, <2>1, <2>2, <3>1, <3>2, <3>3, <3>4
    <3>5. CASE j # n
      <4>1. j \in 1 .. n - 1
        BY <1>2, <3>5
      <4> QED
        BY <2>1, <2>4, <3>1, <3>2, <4>1 DEF CallsInOrder, Nested
    <3> QED
      BY <3>4, <3>5
  <2>6. ASSUME NEW d \in Environments, NEW i \in DOMAIN frames'[d]
        PROVE  InReach(d, frames'[d][i]) /\ NotLater(linkedCache'[d], runs', frames'[d][i])
    <3>1. CASE d = e /\ i = n
      BY <1>9, <2>1, <3>1
    <3>2. CASE ~(d = e /\ i = n)
      <4>1. i \in DOMAIN frames[d] /\ frames'[d][i] = frames[d][i]
        BY <1>2, <2>1, <2>4, <2>6, <3>2
      <4>2. frames[d][i] \in Calls /\ InReach(d, frames[d][i]) /\ NotLater(linkedCache[d], runs, frames[d][i])
        BY <4>1, CallFacts DEF CallsInOrder
      <4>3. frames[d][i].run <= runs => frames[d][i].run <= runs'
        BY <1>9, <2>2, <4>2 DEF Calls
      <4> QED
        BY <1>1, <4>1, <4>2, <4>3 DEF NotLater
    <3> QED
      BY <3>1, <3>2
  <2>7. CallsInOrder'
    <3>1. \A d \in Environments : Nested(frames'[d])
      BY <2>1, <2>5 DEF CallsInOrder
    <3> QED
      BY <1>1, <2>6, <3>1 DEF CallsInOrder, Nested, InReach, lists
  <2> QED
    BY <1>7, <1>8, <2>3, <2>7
<1>10. CASE m = None /\ top.at <= Len(Chain[e])
  <2> DEFINE call == [top EXCEPT !.at = top.at + 1]
  <2>1. SetTop(e, call) /\ runs' = runs
    BY <1>10 DEF Walk, top, m
  <2>2. call \in Calls /\ call.pc = "walk" /\ call.name = top.name
    BY <1>1, <1>2 DEF Calls
  <2>3. InReach(e, call)
    BY <1>2, <1>6, <1>10 DEF Calls, InReach
  <2>4. NotLater(linkedCache'[e], runs', call)
    BY <1>1, <1>2, <2>2 DEF NotLater
  <2>5. runs' \in {runs, runs + 1} /\ runs' \in 0 .. MaxRuns
    BY <2>1 DEF Types, TypeOK
  <2> HIDE DEF call
  <2> QED
    BY <1>9, <2>1, <2>2, <2>3, <2>4, <2>5
<1>11. CASE m # None /\ Exports[m] # "no entry point"
  <2> DEFINE call == [top EXCEPT !.pc = "initializer", !.module = m, !.run = runs + 1]
  <2>1. SetTop(e, call) /\ runs' = runs + 1 /\ runs < MaxRuns /\ runs \in 0 .. MaxRuns
    BY <1>11 DEF Walk, top, m, Types, TypeOK
  <2>2. runs' \in {runs, runs + 1} /\ runs' \in 0 .. MaxRuns /\ runs' \in Nat
    BY <2>1, Constants
  <2>3. /\ call \in Calls /\ call.pc = "initializer" /\ call.name = top.name /\ call.module = m
        /\ call.run = runs + 1 /\ call.at = top.at /\ call.nearest = top.nearest
    BY <1>2, <1>5, <1>11, <2>1, <2>2 DEF Calls
  <2> HIDE DEF call
  <2>4. InReach(e, call)
    BY <1>2, <2>3 DEF InReach
  <2>5. NotLater(linkedCache'[e], runs', call)
    <3>1. ~IsObject(linkedCache'[e][call.name])
      BY <1>1, <1>2, <2>3 DEF NotLater
    <3>2. call.run = runs'
      BY <2>1, <2>3
    <3>3. call.run <= runs'
      BY <2>2, <3>2
    <3> QED
      BY <1>11, <2>3, <3>1, <3>3 DEF NotLater
  <2> QED
    BY <1>9, <2>1, <2>2, <2>3, <2>4, <2>5
<1>12. CASE ~(m = None /\ top.at <= Len(Chain[e])) /\ ~(m # None /\ Exports[m] # "no entry point")
  <2>1. Pop(e) /\ UNCHANGED runs
    BY <1>12 DEF Walk, top, m
  <2>2. aborted' = aborted
    <3>1. aborted = FALSE
      BY DEF Types, TypeOK
    <3> QED
      BY <1>7, <3>1
  <2> QED
    BY <1>1, <2>1, <2>2, PopKeeps
<1> QED
  BY <1>10, <1>11, <1>12

-----------------------------------------------------------------------------
\* No step breaks the invariant.
LEMMA NextIInv == IInv /\ [Next]_vars => IInv'
<1> SUFFICES ASSUME IInv, [Next]_vars PROVE IInv'
  OBVIOUS
<1>1. ASSUME NEW m \in Modules, RegisterLinked(m) PROVE IInv'
  BY <1>1, RegisterLinkedKeeps
<1>2. CASE RegisterBuiltinBindings
  BY <1>2, RegisterBuiltinKeeps
<1>3. ASSUME NEW e \in Environments, NEW m \in Modules, AddLinkedBinding(e, m) PROVE IInv'
  BY <1>3, AddLinkedKeeps
<1>4. ASSUME NEW e \in Environments, NEW name \in Names, BuiltinAsks(e, name) PROVE IInv'
  BY <1>4, BuiltinAsksKeeps
<1>5. ASSUME NEW e \in Environments, NEW name \in Names, Binding(e, name) PROVE IInv'
  BY <1>5, BindingKeeps
<1>6. ASSUME NEW e \in Environments, NEW name \in Names, LinkedBinding(e, name) PROVE IInv'
  BY <1>6, LinkedBindingKeeps
<1>7. ASSUME NEW e \in Environments, Walk(e) PROVE IInv'
  BY <1>7, WalkKeeps
<1>8. ASSUME NEW e \in Environments, Return(e) PROVE IInv'
  BY <1>8, ReturnKeeps
<1>9. ASSUME NEW e \in Environments, Throw(e) PROVE IInv'
  BY <1>9, PopKeeps DEF Throw
<1>10. CASE UNCHANGED vars
  <2>1. UNCHANGED <<lists, realm, linkedCache, frames, runs, reached, aborted>>
    BY <1>10 DEF vars
  <2>2. (Types /\ FlagsRight /\ BindingConfined)'
    BY <2>1 DEF IInv, Types, TypeOK, FlagsRight, BindingConfined, lists, realm
  <2> QED
    BY <2>1, <2>2, CallsKept, RealmKept DEF IInv, lists
<1> QED
  BY <1>1, <1>2, <1>3, <1>4, <1>5, <1>6, <1>7, <1>8, <1>9, <1>10 DEF Next

\* Every reachable state satisfies the invariant.
THEOREM Invariance == Spec => []IInv
<1> QED
  BY InitIInv, NextIInv, PTL DEF Spec

\* The lists, the realms' load lists and caches agree, and FindModule's CHECK
\* never aborts the process.
THEOREM RegistriesAlwaysExact == Spec => []RegistriesExact
<1>1. IInv => RegistriesExact
  BY DEF IInv, RegistriesExact, Types, ChecksHold
<1> QED
  BY <1>1, Invariance, PTL

\* process.binding() gives a program no internal binding that is not in its
\* list, whatever Node.js itself has loaded.
THEOREM BindingAlwaysConfined == Spec => []BindingConfined
<1>1. IInv => BindingConfined
  BY DEF IInv
<1> QED
  BY <1>1, Invariance, PTL

\* GetLinkedBinding never passes a list that had the name when it began.
THEOREM NearestAlwaysFound == Spec => []NearestFound
<1>1. IInv => NearestFound
  BY DEF IInv, CallsInOrder, InReach, NearestFound
<1> QED
  BY <1>1, Invariance, PTL

\* An object in the cache is only replaced by an older initializer's.
THEOREM LinkedAlwaysStable == Spec => LinkedStable
<1> DEFINE Step == \A e \in Environments, name \in Names :
             IsObject(linkedCache[e][name]) => linkedCache'[e][name].run <= linkedCache[e][name].run
<1>1. IInv /\ [Next]_vars => Step
  <2> SUFFICES ASSUME IInv, [Next]_vars PROVE Step
    OBVIOUS
  <2>1. CASE UNCHANGED linkedCache
    <3>1. \A e \in Environments, name \in Names : linkedCache[e][name].run \in Nat
      BY DEF IInv, Types, TypeOK
    <3> QED
      BY <2>1, <3>1
  <2>2. ASSUME NEW e \in Environments, Return(e) PROVE Step
    BY <2>2, ReturnKeeps
  <2> QED
    BY <2>1, <2>2 DEF Next, vars, RegisterLinked, RegisterBuiltinBindings, AddLinkedBinding,
                      BuiltinAsks, Binding, LinkedBinding, Walk, Throw
<1>2. IInv /\ [Next]_vars => [Step]_vars
  BY <1>1
<1> QED
  BY <1>2, Invariance, PTL DEF Spec, LinkedStable
=============================================================================
