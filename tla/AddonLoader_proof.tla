-------------------------- MODULE AddonLoader_proof --------------------------
(***************************************************************************)
(* For any number of threads and any libraries: what TLC checks of         *)
(* AddonLoader on two threads and four libraries.                          *)
(*                                                                         *)
(* The proof has two halves.  The counts: what a DLib that begins, goes on *)
(* or ends does to the number of DLibs that have a library open, or that   *)
(* the handle map counts.  The steps: the invariant says what the fields   *)
(* of a DLib mean at each point of DLOpen, which of those points are under *)
(* dlib_load_mutex, and when the module in the handle map is usable.       *)
(***************************************************************************)
EXTENDS AddonLoader, SequenceTheorems, FiniteSetTheorems, TLAPS

-----------------------------------------------------------------------------
(* Sequences.                                                              *)

\* A longer sequence has the old elements and the new one.
LEMMA AppendFacts ==
  ASSUME NEW S, NEW s \in Seq(S), NEW e \in S
  PROVE  /\ Append(s, e) \in Seq(S)
         /\ DOMAIN s = 1 .. Len(s) /\ Len(s) \in Nat
         /\ DOMAIN Append(s, e) = 1 .. Len(s) + 1
         /\ \A i \in 1 .. Len(s) : Append(s, e)[i] = s[i]
         /\ Append(s, e)[Len(s) + 1] = e
BY AppendProperties, LenProperties

\* A sequence without its last element has the others.
LEMMA FrontFacts ==
  ASSUME NEW S, NEW s \in Seq(S), s # <<>>
  PROVE  /\ Len(s) \in Nat \ {0} /\ DOMAIN s = 1 .. Len(s)
         /\ Last(s) \in S /\ Last(s) = s[Len(s)]
         /\ Front(s) \in Seq(S)
         /\ DOMAIN Front(s) = 1 .. Len(s) - 1
         /\ \A i \in 1 .. Len(s) - 1 : Front(s)[i] = s[i]
<1>1. Len(s) \in Nat \ {0} /\ DOMAIN s = 1 .. Len(s)
  BY EmptySeq, LenProperties
<1>2. \A i \in 1 .. Len(s) : s[i] \in S
  BY ElementOfSeq
<1>3. /\ Front(s) \in Seq(S)
      /\ Len(Front(s)) = Len(s) - 1
      /\ \A i \in 1 .. Len(s) - 1 : Front(s)[i] = s[i]
  BY <1>1, <1>2, SubSeqProperties DEF Front
<1>4. DOMAIN Front(s) = 1 .. Len(s) - 1
  BY <1>3, LenProperties
<1> QED
  BY <1>1, <1>2, <1>3, <1>4 DEF Last

-----------------------------------------------------------------------------
(* Counting DLibs.                                                         *)

\* Sequences of members of E, one for each thread.
Stacks(E) == [Threads -> Seq(E)]

\* How many places of ds have a member of D, and what one more DLib adds.
Number(ds, D) == Cardinality(Places(ds, D))
One(d, D) == IF d \in D THEN 1 ELSE 0

\* From ds to es, thread t gets a DLib d, loses the last one, replaces the
\* last one by d, or loses the first one.
Appended(ds, es, t, d) == es = [ds EXCEPT ![t] = Append(@, d)]
Dropped(ds, es, t) == es = [ds EXCEPT ![t] = Front(@)]
Replaced(ds, es, t, d) == es = [ds EXCEPT ![t] = [@ EXCEPT ![Len(@)] = d]]
Beheaded(ds, es, t) == es = [ds EXCEPT ![t] = Tail(@)]

LEMMA PlacesFacts ==
  ASSUME NEW E, NEW ds \in Stacks(E), NEW D
  PROVE  \A p : p \in Places(ds, D) <=>
           \E t \in Threads : \E i \in 1 .. Len(ds[t]) : p = <<t, i>> /\ ds[t][i] \in D
<1>1. \A t \in Threads : DOMAIN ds[t] = 1 .. Len(ds[t])
  BY LenProperties
<1>2. ASSUME NEW p
      PROVE  p \in UNION {{t} \X DOMAIN ds[t] : t \in Threads} <=>
               \E t \in Threads : \E i \in 1 .. Len(ds[t]) : p = <<t, i>>
  BY <1>1
<1>3. \A t, i : <<t, i>>[1] = t /\ <<t, i>>[2] = i
  OBVIOUS
<1> QED
  BY <1>2, <1>3 DEF Places

\* Finitely many threads have finitely many DLibs.
LEMMA PlacesFinite ==
  ASSUME NEW E, NEW ds \in Stacks(E), NEW D
  PROVE  IsFiniteSet(Places(ds, D)) /\ Number(ds, D) \in Nat
<1> DEFINE R(t) == {t} \X DOMAIN ds[t]
           S == {R(t) : t \in Threads}
           f == [t \in Threads |-> R(t)]
<1>1. IsFiniteSet(S)
  <2>1. f \in Surjection(Threads, S)
    BY DEF Surjection
  <2>2. IsFiniteSet(Threads)
    BY AddonAssumption
  <2> HIDE DEF f, S
  <2> QED
    BY <2>1, <2>2, FS_Surjection
<1>2. \A T \in S : IsFiniteSet(T)
  <2> SUFFICES ASSUME NEW t \in Threads PROVE IsFiniteSet(R(t))
    OBVIOUS
  <2>1. DOMAIN ds[t] = 1 .. Len(ds[t]) /\ Len(ds[t]) \in Nat
    BY LenProperties
  <2>2. IsFiniteSet(1 .. Len(ds[t])) /\ IsFiniteSet({t})
    <3>1. \A k \in Nat : IsFiniteSet(1 .. k)
      BY FS_Interval
    <3>2. IsFiniteSet({t})
      BY FS_Singleton, Zenon
    <3> QED
      BY <2>1, <3>1, <3>2
  <2>3. \A A, B : IsFiniteSet(A) /\ IsFiniteSet(B) => IsFiniteSet(A \X B)
    <3> SUFFICES ASSUME NEW A, NEW B, IsFiniteSet(A), IsFiniteSet(B)
                 PROVE  IsFiniteSet(A \X B)
      OBVIOUS
    <3> QED
      BY FS_Product
  <2> QED
    BY <2>1, <2>2, <2>3
<1>3. IsFiniteSet(UNION S)
  <2> HIDE DEF S
  <2> QED
    BY <1>1, <1>2, FS_UNION
<1>4. Places(ds, D) \in SUBSET UNION S
  BY DEF Places
<1>5. IsFiniteSet(Places(ds, D))
  <2> HIDE DEF S
  <2> QED
    BY <1>3, <1>4, FS_Subset
<1> QED
  BY <1>5, FS_CardinalityType DEF Number

\* es has one DLib more than ds, at the end of the n that t had.
Grows(ds, es, t, n) ==
  /\ \A u \in Threads : u # t => es[u] = ds[u]
  /\ DOMAIN ds[t] = 1 .. n /\ DOMAIN es[t] = 1 .. n + 1
  /\ \A i \in 1 .. n : es[t][i] = ds[t][i]

LEMMA NumberGrows ==
  ASSUME NEW E, NEW ds \in Stacks(E), NEW es \in Stacks(E), NEW D,
         NEW t \in Threads, NEW n \in Nat, Grows(ds, es, t, n)
  PROVE  Number(es, D) = Number(ds, D) + One(es[t][n + 1], D)
<1> DEFINE P == Places(ds, D)
           Q == Places(es, D)
           x == <<t, n + 1>>
<1>1. Len(ds[t]) = n /\ Len(es[t]) = n + 1
  BY LenProperties DEF Grows
<1>2. \A p : p \in P <=> \E u \in Threads : \E i \in 1 .. Len(ds[u]) : p = <<u, i>> /\ ds[u][i] \in D
  BY PlacesFacts
<1>3. \A p : p \in Q <=> \E u \in Threads : \E i \in 1 .. Len(es[u]) : p = <<u, i>> /\ es[u][i] \in D
  BY PlacesFacts
<1>4. IsFiniteSet(P) /\ Cardinality(P) \in Nat
  BY PlacesFinite DEF Number
<1> HIDE DEF P, Q
<1>5. x \notin P
  BY <1>1, <1>2
<1>6. ASSUME NEW p, p # x PROVE p \in P <=> p \in Q
  <2>1. ASSUME NEW u \in Threads, NEW i, p = <<u, i>>
        PROVE  /\ i \in 1 .. Len(ds[u]) <=> i \in 1 .. Len(es[u])
               /\ i \in 1 .. Len(ds[u]) => es[u][i] = ds[u][i]
    <3>1. CASE u = t
      <4>1. i # n + 1
        BY <1>6, <2>1, <3>1
      <4> QED
        BY <1>1, <3>1, <4>1 DEF Grows
    <3>2. CASE u # t
      BY <3>2 DEF Grows
    <3> QED
      BY <3>1, <3>2
  <2> QED
    BY <1>2, <1>3, <2>1
<1>7. x \in Q <=> es[t][n + 1] \in D
  BY <1>1, <1>3
<1>8. CASE es[t][n + 1] \in D
  <2>1. Q = P \cup {x}
    BY <1>6, <1>7, <1>8
  <2> HIDE DEF x
  <2>2. Cardinality(Q) = Cardinality(P) + 1
    BY <1>4, <1>5, <2>1, FS_AddElement
  <2> QED
    BY <1>8, <2>2 DEF Number, One, P, Q
<1>9. CASE es[t][n + 1] \notin D
  <2>1. \A p : p \in Q <=> p \in P
    BY <1>5, <1>6, <1>7, <1>9
  <2> QED
    <3>1. Q = P
      BY <2>1, Zenon
    <3> QED
      BY <1>4, <1>9, <3>1 DEF Number, One, P, Q
<1> QED
  BY <1>8, <1>9

\* A DLib more, a DLib less, and one that goes on.
LEMMA NumberAppend ==
  ASSUME NEW E, NEW ds \in Stacks(E), NEW D, NEW t \in Threads, NEW d \in E,
         NEW es, Appended(ds, es, t, d)
  PROVE  /\ es \in Stacks(E)
         /\ Number(es, D) = Number(ds, D) + One(d, D)
<1>1. /\ Append(ds[t], d) \in Seq(E) /\ DOMAIN ds[t] = 1 .. Len(ds[t]) /\ Len(ds[t]) \in Nat
      /\ DOMAIN Append(ds[t], d) = 1 .. Len(ds[t]) + 1
      /\ \A i \in 1 .. Len(ds[t]) : Append(ds[t], d)[i] = ds[t][i]
      /\ Append(ds[t], d)[Len(ds[t]) + 1] = d
  BY AppendFacts DEF Stacks
<1>2. /\ es \in Stacks(E) /\ es[t] = Append(ds[t], d)
      /\ \A u \in Threads : u # t => es[u] = ds[u]
  BY <1>1 DEF Stacks, Appended, Dropped, Beheaded
<1> DEFINE n == Len(ds[t])
<1>3. n \in Nat /\ Grows(ds, es, t, n) /\ es \in Stacks(E)
  BY <1>1, <1>2 DEF Grows
<1>4. Number(es, D) = Number(ds, D) + One(es[t][n + 1], D)
  <2> HIDE DEF n
  <2> QED
    BY <1>3, NumberGrows
<1> QED
  BY <1>1, <1>2, <1>4

LEMMA NumberFront ==
  ASSUME NEW E, NEW ds \in Stacks(E), NEW D, NEW t \in Threads, ds[t] # <<>>,
         NEW es, Dropped(ds, es, t)
  PROVE  /\ es \in Stacks(E)
         /\ Number(es, D) = Number(ds, D) - One(Last(ds[t]), D)
<1> DEFINE n == Len(ds[t]) - 1
<1>1. /\ Len(ds[t]) \in Nat \ {0} /\ DOMAIN ds[t] = 1 .. Len(ds[t])
      /\ Last(ds[t]) = ds[t][Len(ds[t])] /\ Front(ds[t]) \in Seq(E)
      /\ DOMAIN Front(ds[t]) = 1 .. Len(ds[t]) - 1
      /\ \A i \in 1 .. Len(ds[t]) - 1 : Front(ds[t])[i] = ds[t][i]
  BY FrontFacts DEF Stacks
<1>2. /\ es \in Stacks(E) /\ es[t] = Front(ds[t])
      /\ \A u \in Threads : u # t => es[u] = ds[u]
  BY <1>1 DEF Stacks, Appended, Dropped, Beheaded
<1>3. n \in Nat /\ n + 1 = Len(ds[t])
  BY <1>1
<1>4. Number(ds, D) = Number(es, D) + One(ds[t][n + 1], D)
  <2>1. Grows(es, ds, t, n)
    BY <1>1, <1>2, <1>3 DEF Grows
  <2> HIDE DEF n
  <2> QED
    BY <1>2, <1>3, <2>1, NumberGrows
<1>5. Number(es, D) \in Nat /\ One(Last(ds[t]), D) \in Nat
  BY <1>2, PlacesFinite DEF One
<1> QED
  BY <1>1, <1>2, <1>3, <1>4, <1>5

LEMMA NumberReplace ==
  ASSUME NEW E, NEW ds \in Stacks(E), NEW D, NEW t \in Threads, ds[t] # <<>>, NEW d \in E,
         NEW es, Replaced(ds, es, t, d)
  PROVE  /\ es \in Stacks(E)
         /\ Number(es, D) = Number(ds, D) - One(Last(ds[t]), D) + One(d, D)
<1> DEFINE hs == [ds EXCEPT ![t] = Front(@)]
           gs == [hs EXCEPT ![t] = Append(@, d)]
<1>0. Dropped(ds, hs, t) /\ Appended(hs, gs, t, d)
  BY DEF Dropped, Appended
<1> HIDE DEF hs, gs
<1>1. hs \in Stacks(E) /\ Number(hs, D) = Number(ds, D) - One(Last(ds[t]), D)
  BY <1>0, NumberFront
<1>2. hs[t] = Front(ds[t]) /\ \A u \in Threads : u # t => hs[u] = ds[u]
  BY <1>0 DEF Stacks, Dropped
<1>3. gs \in Stacks(E) /\ Number(gs, D) = Number(hs, D) + One(d, D)
  BY <1>0, <1>1, NumberAppend
<1>4. gs = es
  <2>1. /\ ds[t] \in Seq(E) /\ Len(ds[t]) \in Nat \ {0} /\ DOMAIN ds[t] = 1 .. Len(ds[t])
        /\ Front(ds[t]) \in Seq(E) /\ DOMAIN Front(ds[t]) = 1 .. Len(ds[t]) - 1
        /\ \A i \in 1 .. Len(ds[t]) - 1 : Front(ds[t])[i] = ds[t][i]
    BY FrontFacts DEF Stacks
  <2>2. /\ DOMAIN Append(Front(ds[t]), d) = 1 .. Len(ds[t])
        /\ \A i \in 1 .. Len(ds[t]) - 1 : Append(Front(ds[t]), d)[i] = ds[t][i]
        /\ Append(Front(ds[t]), d)[Len(ds[t])] = d
    <3> DEFINE f == Front(ds[t])
    <3>1. f \in Seq(E) /\ Len(f) = Len(ds[t]) - 1
      BY <2>1, LenProperties
    <3> HIDE DEF f
    <3>2. /\ DOMAIN Append(f, d) = 1 .. Len(f) + 1
          /\ \A i \in 1 .. Len(f) : Append(f, d)[i] = f[i]
          /\ Append(f, d)[Len(f) + 1] = d
      BY <3>1, AppendFacts
    <3> QED
      BY <2>1, <3>1, <3>2 DEF f
  <2>3. Append(Front(ds[t]), d) = [ds[t] EXCEPT ![Len(ds[t])] = d]
    <3> DEFINE a == Append(Front(ds[t]), d)
               e == [ds[t] EXCEPT ![Len(ds[t])] = d]
    <3>1. a \in Seq(E) /\ Len(a) = Len(ds[t])
      BY <2>1, <2>2, AppendFacts, LenProperties
    <3>2. /\ e \in Seq(E) /\ Len(e) = Len(ds[t])
          /\ \A i \in 1 .. Len(ds[t]) : e[i] = IF i = Len(ds[t]) THEN d ELSE ds[t][i]
      BY <2>1, ExceptSeq
    <3>3. \A i \in 1 .. Len(a) : a[i] = e[i]
      BY <2>1, <2>2, <3>1, <3>2
    <3> HIDE DEF a, e
    <3>4. a = e
      BY <3>1, <3>2, <3>3, SeqEqual
    <3> QED
      BY <3>4 DEF a, e
  <2> QED
    BY <1>0, <1>1, <1>2, <2>3 DEF Stacks, Appended, Replaced
<1>5. One(Last(ds[t]), D) \in Nat /\ One(d, D) \in Nat /\ Number(ds, D) \in Nat
  BY PlacesFinite DEF One
<1> QED
  BY <1>1, <1>3, <1>4, <1>5

LEMMA NumberTail ==
  ASSUME NEW E, NEW ds \in Stacks(E), NEW D, NEW t \in Threads, ds[t] # <<>>,
         NEW es, Beheaded(ds, es, t)
  PROVE  /\ es \in Stacks(E)
         /\ Number(es, D) = Number(ds, D) - One(Head(ds[t]), D)
<1> DEFINE P == Places(ds, D)
           Q == Places(es, D)
           x == <<t, 1>>
           n == Len(ds[t])
           b == [p \in P \ {x} |-> IF p[1] = t THEN <<t, p[2] - 1>> ELSE p]
<1>1. /\ ds[t] \in Seq(E) /\ n \in Nat \ {0} /\ Tail(ds[t]) \in Seq(E)
      /\ Len(Tail(ds[t])) = n - 1 /\ Head(ds[t]) = ds[t][1]
      /\ \A i \in 1 .. n - 1 : Tail(ds[t])[i] = ds[t][i + 1]
  <2>1. ds[t] \in Seq(E)
    BY DEF Stacks
  <2>2. n \in Nat \ {0}
    BY <2>1, EmptySeq, LenProperties
  <2> QED
    BY <2>1, <2>2, HeadTailProperties
<1>2. /\ es \in Stacks(E) /\ es[t] = Tail(ds[t])
      /\ \A u \in Threads : u # t => es[u] = ds[u]
  BY <1>1 DEF Stacks, Appended, Dropped, Beheaded
<1>3. \A p : p \in P <=> \E u \in Threads : \E i \in 1 .. Len(ds[u]) : p = <<u, i>> /\ ds[u][i] \in D
  BY PlacesFacts
<1>4. \A p : p \in Q <=> \E u \in Threads : \E i \in 1 .. Len(es[u]) : p = <<u, i>> /\ es[u][i] \in D
  BY <1>2, PlacesFacts
<1>5. IsFiniteSet(P) /\ Cardinality(P) \in Nat
  BY PlacesFinite DEF Number
<1> HIDE DEF P, Q
<1>6. \A u, i : <<u, i>> \in P <=> u \in Threads /\ i \in 1 .. Len(ds[u]) /\ ds[u][i] \in D
  BY <1>3
<1>7. \A u, i : <<u, i>> \in Q <=> u \in Threads /\ i \in 1 .. Len(es[u]) /\ es[u][i] \in D
  BY <1>4
\* What b does, in two cases.
<1>8. \A i \in Int : <<t, i>> \in Q <=> <<t, i + 1>> \in P /\ i # 0
  <2> SUFFICES ASSUME NEW i \in Int
               PROVE  <<t, i>> \in Q <=> <<t, i + 1>> \in P /\ i # 0
    OBVIOUS
  <2>1. <<t, i>> \in Q <=> i \in 1 .. n - 1 /\ Tail(ds[t])[i] \in D
    BY <1>1, <1>2, <1>7
  <2>2. <<t, i + 1>> \in P <=> i + 1 \in 1 .. n /\ ds[t][i + 1] \in D
    BY <1>6
  <2> QED
    BY <1>1, <2>1, <2>2
<1>9. \A u, i : u # t => (<<u, i>> \in Q <=> <<u, i>> \in P)
  BY <1>2, <1>6, <1>7
<1>10. \A p \in P \cup Q : \E u \in Threads, i \in Nat \ {0} : p = <<u, i>>
  <2>1. \A u \in Threads : Len(ds[u]) \in Nat /\ Len(es[u]) \in Nat
    BY <1>2, LenProperties DEF Stacks
  <2> QED
    BY <1>3, <1>4, <2>1
<1>11. \A u, i : <<u, i>>[1] = u /\ <<u, i>>[2] = i
  OBVIOUS
<1>12. ASSUME NEW p \in P \ {x} PROVE b[p] \in Q
  <2>1. PICK u \in Threads, i \in Nat \ {0} : p = <<u, i>>
    BY <1>10
  <2>2. CASE u = t
    <3>1. i # 1 /\ i - 1 \in Int /\ i - 1 # 0 /\ i - 1 + 1 = i /\ b[p] = <<t, i - 1>>
      BY <1>11, <2>1, <2>2
    <3> QED
      BY <1>8, <2>1, <2>2, <3>1
  <2>3. CASE u # t
    BY <1>9, <1>11, <2>1, <2>3
  <2> QED
    BY <2>2, <2>3
<1>13. ASSUME NEW p \in P \ {x}, NEW q \in P \ {x}, b[p] = b[q] PROVE p = q
  <2>1. PICK u \in Threads, i \in Nat \ {0} : p = <<u, i>>
    BY <1>10
  <2>2. PICK v \in Threads, j \in Nat \ {0} : q = <<v, j>>
    BY <1>10
  <2>3. /\ b[p] = IF u = t THEN <<t, i - 1>> ELSE <<u, i>>
        /\ b[q] = IF v = t THEN <<t, j - 1>> ELSE <<v, j>>
    BY <1>11, <2>1, <2>2
  <2> HIDE DEF b
  <2> QED
    BY <1>13, <2>1, <2>2, <2>3
<1>14. ASSUME NEW q \in Q PROVE \E p \in P \ {x} : b[p] = q
  <2>1. PICK u \in Threads, i \in Nat \ {0} : q = <<u, i>>
    BY <1>10
  <2>2. CASE u = t
    <3>1. <<t, i + 1>> \in P \ {x} /\ i + 1 - 1 = i
      BY <1>8, <2>1, <2>2
    <3>2. b[<<t, i + 1>>] = q
      BY <1>11, <2>1, <2>2, <3>1
    <3> QED
      BY <3>1, <3>2
  <2>3. CASE u # t
    <3>1. q \in P \ {x} /\ b[q] = q
      BY <1>9, <1>11, <2>1, <2>3
    <3> QED
      BY <3>1
  <2> QED
    BY <2>2, <2>3
<1>15. b \in Bijection(P \ {x}, Q)
  <2>1. b \in [P \ {x} -> Q]
    BY <1>12
  <2> HIDE DEF b
  <2> QED
    BY <1>13, <1>14, <2>1 DEF Bijection, Injection, Surjection, IsInjective
<1> HIDE DEF b
<1>16. /\ IsFiniteSet(P \ {x})
       /\ Cardinality(P \ {x}) = IF x \in P THEN Cardinality(P) - 1 ELSE Cardinality(P)
  <2> HIDE DEF x
  <2> QED
    BY <1>5, FS_RemoveElement
<1>17. Cardinality(Q) = Cardinality(P \ {x})
  BY <1>15, <1>16, FS_Bijection DEF ExistsBijection
<1>18. x \in P <=> Head(ds[t]) \in D
  BY <1>1, <1>6
<1> QED
  BY <1>2, <1>5, <1>16, <1>17, <1>18 DEF Number, One, P, Q

-----------------------------------------------------------------------------
(* The invariant.                                                          *)

\* How many have library l open, and how many the handle map should count.
Users(l) == Cardinality({t \in Threads : l \in ffi[t]})
Total(D) == Number(frames, D) + Number(addons, D)
OpenNow(l) == Total(Opening(l)) + Users(l)
SavedNow(l) == Total(Saved(l))

Counts ==
  \A l \in Libs :
    IF l \in unclosed THEN opens[l] >= OpenNow(l) /\ map[l].refcount >= SavedNow(l)
                     ELSE opens[l] = OpenNow(l) /\ map[l].refcount = SavedNow(l)

\* What runs between the ScopedLock and its release.
LockedPcs == {"open", "self_registered", "no_module", "version", "user_locked"}

\* DLib f needs dlib_load_mutex: its load runs under it, or will erase an
\* entry of the handle map that it has not counted itself.
Locked(f) == f.pc \in LockedPcs \/ (f.entry /\ ~f.saved)

\* What the fields of a DLib at work say about each other.
WorkOK(f) ==
  /\ f.pc \in {"lock", "open", "self_registered", "no_module"} => ~f.entry /\ ~f.saved
  /\ f.saved => f.entry
  /\ f.entry /\ ~f.saved => f.pc \in {"dlclose", "left_open", "erase"} /\ map[f.lib].refcount = 0
  /\ f.pc = "self_registered" => Addon[f.lib].self
  /\ f.pc = "version" => f.saved /\ ~(force /\ ~Addon[f.lib].context)

\* Only the innermost DLib of a thread is not in an initializer.
Works ==
  \A t \in Threads : \A i \in 1 .. Len(frames[t]) :
    /\ WorkOK(frames[t][i])
    /\ i # Len(frames[t]) => frames[t][i].pc \in {"user", "user_locked"}

\* A loaded DLib erases what it counted.
Loads == \A t \in Threads : \A i \in 1 .. Len(addons[t]) :
           addons[t][i].saved <=> addons[t][i].entry

\* Who needs the mutex has it, and the thread's other DLibs do not use it.
Locks ==
  \A t \in Threads : \A i \in 1 .. Len(frames[t]) :
    Locked(frames[t][i]) =>
      /\ lock = t
      /\ \A j \in 1 .. Len(frames[t]) : j # i => frames[t][j].pc \in {"lock", "user"}

\* A load that an initializer found by its symbol has asked for.
Nested(t) == LET n == Len(frames[t]) IN n > 1 /\ frames[t][n - 1].pc = "user_locked"

\* Who has the mutex is at work under it, or waits for it in such a load.
Holder ==
  \A t \in Threads : lock = t =>
    /\ frames[t] # <<>>
    /\ \/ Top(t).pc \in LockedPcs \cup {"dlclose", "left_open", "erase"}
       \/ Top(t).pc = "lock" /\ Nested(t)

\* The FFI opens no library that registers a module.
Quiet == \A l \in FfiLibs : ~Addon[l].self

\* A module in the handle map is usable while its library is open, or the
\* library has just registered it again.
Alive ==
  /\ \A l \in Libs : map[l].refcount > 0 => Addon[l].self
  /\ Quiet => \A l \in Libs :
       \/ force /\ ~Addon[l].context
       \/ map[l].refcount = 0 \/ opens[l] = 0 \/ map[l].module = "live"
       \/ \E t \in Threads : At(t, "self_registered") /\ Top(t).lib = l

Pendings == Quiet => ~aborted /\ \A t \in Threads : pending[t] = NULL

IInv == TypeOK /\ Counts /\ Works /\ Loads /\ Locks /\ Holder /\ Alive /\ Pendings

-----------------------------------------------------------------------------
(* The DLibs of a thread.                                                  *)

LEMMA TopFacts ==
  ASSUME TypeOK, NEW t \in Threads, frames[t] # <<>>
  PROVE  /\ Len(frames[t]) \in Nat \ {0} /\ Top(t) = frames[t][Len(frames[t])]
         /\ Top(t) \in DLibs(Pcs) /\ frames \in Stacks(DLibs(Pcs))
         /\ Top(t).lib \in Libs /\ Top(t).pc \in Pcs
         /\ Top(t).entry \in BOOLEAN /\ Top(t).saved \in BOOLEAN
<1>1. frames[t] \in Seq(DLibs(Pcs)) /\ frames \in Stacks(DLibs(Pcs))
  BY DEF TypeOK, Stacks
<1>2. /\ Len(frames[t]) \in Nat \ {0} /\ Last(frames[t]) = frames[t][Len(frames[t])]
      /\ Last(frames[t]) \in DLibs(Pcs)
  BY <1>1, FrontFacts
<1> QED
  BY <1>1, <1>2 DEF Top, DLibs

LEMMA FrameTypes ==
  ASSUME TypeOK, NEW t \in Threads, NEW i \in 1 .. Len(frames[t])
  PROVE  frames[t][i] \in DLibs(Pcs) /\ frames[t][i].lib \in Libs
<1>1. frames[t] \in Seq(DLibs(Pcs))
  BY DEF TypeOK
<1>2. frames[t][i] \in DLibs(Pcs)
  BY <1>1, ElementOfSeq
<1> QED
  BY <1>2 DEF DLibs

\* The innermost DLib goes on to another place.
LEMMA GoToFacts ==
  ASSUME TypeOK, NEW t \in Threads, frames[t] # <<>>, NEW pc \in Pcs, GoTo(t, pc)
  PROVE  \E d \in DLibs(Pcs) :
           /\ Replaced(frames, frames', t, d)
           /\ d.pc = pc /\ d.lib = Top(t).lib /\ d.entry = Top(t).entry
           /\ d.saved = Top(t).saved
<1>1. frames[t] \in Seq(DLibs(Pcs)) /\ Len(frames[t]) \in DOMAIN frames[t]
  BY TopFacts, LenProperties DEF TypeOK
<1> DEFINE d == [Top(t) EXCEPT !.pc = pc]
<1>2. Replaced(frames, frames', t, d)
  BY <1>1, TopFacts DEF GoTo, Replaced, Top, DLibs, Last
<1>3. /\ d \in DLibs(Pcs) /\ d.pc = pc /\ d.lib = Top(t).lib /\ d.entry = Top(t).entry
      /\ d.saved = Top(t).saved
  BY TopFacts DEF DLibs
<1> QED
  BY <1>2, <1>3

LEMMA ReplacedFacts ==
  ASSUME TypeOK, NEW t \in Threads, frames[t] # <<>>, NEW d \in DLibs(Pcs),
         Replaced(frames, frames', t, d)
  PROVE  /\ frames' \in [Threads -> Seq(DLibs(Pcs))]
         /\ Len(frames'[t]) = Len(frames[t]) /\ frames'[t] # <<>> /\ Last(frames'[t]) = d
         /\ frames'[t][Len(frames[t])] = d
         /\ \A i \in 1 .. Len(frames[t]) : i # Len(frames[t]) => frames'[t][i] = frames[t][i]
         /\ \A u \in Threads : u # t => frames'[u] = frames[u]
<1>1. /\ frames[t] \in Seq(DLibs(Pcs)) /\ frames \in [Threads -> Seq(DLibs(Pcs))]
      /\ Len(frames[t]) \in 1 .. Len(frames[t])
  BY TopFacts DEF TypeOK
<1> DEFINE e == [frames[t] EXCEPT ![Len(frames[t])] = d]
<1>2. /\ e \in Seq(DLibs(Pcs)) /\ Len(e) = Len(frames[t])
      /\ \A i \in 1 .. Len(frames[t]) : e[i] = IF i = Len(frames[t]) THEN d ELSE frames[t][i]
  BY <1>1, ExceptSeq
<1>3. e # <<>>
  BY <1>1, <1>2, EmptySeq
<1>4. frames'[t] = e /\ \A u \in Threads : u # t => frames'[u] = frames[u]
  BY <1>1 DEF Replaced
<1>5. frames' \in [Threads -> Seq(DLibs(Pcs))]
  BY <1>1, <1>2 DEF Replaced
<1> QED
  BY <1>1, <1>2, <1>3, <1>4, <1>5 DEF Last

LEMMA DroppedFacts ==
  ASSUME TypeOK, NEW t \in Threads, frames[t] # <<>>, Dropped(frames, frames', t)
  PROVE  /\ frames' \in [Threads -> Seq(DLibs(Pcs))]
         /\ Len(frames'[t]) = Len(frames[t]) - 1
         /\ \A i \in 1 .. Len(frames'[t]) : frames'[t][i] = frames[t][i]
         /\ \A u \in Threads : u # t => frames'[u] = frames[u]
<1>1. /\ frames \in [Threads -> Seq(DLibs(Pcs))] /\ Len(frames[t]) \in Nat \ {0}
      /\ Front(frames[t]) \in Seq(DLibs(Pcs))
      /\ DOMAIN Front(frames[t]) = 1 .. Len(frames[t]) - 1
      /\ \A i \in 1 .. Len(frames[t]) - 1 : Front(frames[t])[i] = frames[t][i]
  BY FrontFacts DEF TypeOK
<1>2. Len(Front(frames[t])) = Len(frames[t]) - 1
  BY <1>1, LenProperties
<1>3. frames'[t] = Front(frames[t]) /\ \A u \in Threads : u # t => frames'[u] = frames[u]
  BY <1>1 DEF Dropped
<1> QED
  BY <1>1, <1>2, <1>3 DEF Dropped

LEMMA AppendedFacts ==
  ASSUME TypeOK, NEW t \in Threads, NEW d \in DLibs(Pcs), Appended(frames, frames', t, d)
  PROVE  /\ frames' \in [Threads -> Seq(DLibs(Pcs))] /\ Len(frames[t]) \in Nat
         /\ Len(frames'[t]) = Len(frames[t]) + 1 /\ frames'[t] # <<>> /\ Last(frames'[t]) = d
         /\ frames'[t][Len(frames[t]) + 1] = d
         /\ \A i \in 1 .. Len(frames[t]) : frames'[t][i] = frames[t][i]
         /\ \A u \in Threads : u # t => frames'[u] = frames[u]
<1> DEFINE a == Append(frames[t], d)
<1>1. /\ frames \in [Threads -> Seq(DLibs(Pcs))] /\ a \in Seq(DLibs(Pcs))
      /\ Len(frames[t]) \in Nat /\ DOMAIN a = 1 .. Len(frames[t]) + 1
      /\ \A i \in 1 .. Len(frames[t]) : a[i] = frames[t][i]
      /\ a[Len(frames[t]) + 1] = d
  BY AppendFacts DEF TypeOK
<1>0. frames' = [frames EXCEPT ![t] = a]
  BY DEF Appended
<1> HIDE DEF a
<1>2. Len(a) = Len(frames[t]) + 1
  BY <1>1, LenProperties
<1>3. a # <<>>
  BY <1>1, <1>2, EmptySeq
<1>4. frames'[t] = a /\ \A u \in Threads : u # t => frames'[u] = frames[u]
  BY <1>0, <1>1
<1>5. frames' \in [Threads -> Seq(DLibs(Pcs))]
  BY <1>0, <1>1
<1> QED
  BY <1>1, <1>2, <1>3, <1>4, <1>5 DEF Last

\* What the mutex says about who needs it.
LEMMA LocksFacts ==
  ASSUME TypeOK, Works, Locks, NEW t \in Threads
  PROVE  /\ \A u \in Threads, i \in Nat \ {0} :
              i <= Len(frames[u]) /\ Locked(frames[u][i]) => lock = u
         /\ frames[t] # <<>> /\ (Locked(Top(t)) \/ lock = NULL \/ Top(t).pc \notin {"lock", "user"}) =>
              \A i \in 1 .. Len(frames[t]) : i # Len(frames[t]) => ~Locked(frames[t][i])
<1>1. \A u \in Threads : Len(frames[u]) \in Nat
  BY LenProperties DEF TypeOK
<1>2. \A u \in Threads, i \in Nat \ {0} :
        i <= Len(frames[u]) /\ Locked(frames[u][i]) => lock = u
  BY <1>1 DEF Locks
<1>3. ASSUME frames[t] # <<>>, NEW i \in 1 .. Len(frames[t]), i # Len(frames[t]),
             Locked(frames[t][i]),
             Locked(Top(t)) \/ lock = NULL \/ Top(t).pc \notin {"lock", "user"}
      PROVE  FALSE
  <2>1. lock = t /\ \A j \in 1 .. Len(frames[t]) : j # i => frames[t][j].pc \in {"lock", "user"}
    BY <1>3 DEF Locks
  <2>2. Len(frames[t]) \in 1 .. Len(frames[t]) /\ Top(t) = frames[t][Len(frames[t])] /\ t # NULL
    BY <1>3, TopFacts, AddonAssumption
  <2>3. Locked(Top(t)) /\ Top(t).pc \in {"lock", "user"}
    BY <1>3, <2>1, <2>2
  <2>4. frames[t][i].pc \in {"lock", "user"}
    BY <1>3, <2>2, <2>3 DEF Locks
  <2>5. WorkOK(frames[t][i])
    BY <1>3 DEF Works
  <2> QED
    BY <1>3, <2>4, <2>5 DEF Locked, LockedPcs, WorkOK
<1> QED
  BY <1>2, <1>3

\* A DLib that has the mutex, or takes it, goes on.
LEMMA AdvanceShape ==
  ASSUME TypeOK, Works, Locks, force' = force, NEW t \in Threads, frames[t] # <<>>,
         Locked(Top(t)) \/ lock = NULL,
         NEW d \in DLibs(Pcs), Replaced(frames, frames', t, d),
         WorkOK(d)', Locked(d) => lock' = t
  PROVE  Works' /\ Locks'
<1>1. /\ Len(frames'[t]) = Len(frames[t]) /\ frames'[t][Len(frames[t])] = d
      /\ \A i \in 1 .. Len(frames[t]) : i # Len(frames[t]) => frames'[t][i] = frames[t][i]
      /\ \A u \in Threads : u # t => frames'[u] = frames[u]
  BY ReplacedFacts
<1>2. Len(frames[t]) \in Nat \ {0} /\ Top(t) = frames[t][Len(frames[t])] /\ t # NULL
  BY TopFacts, AddonAssumption
<1>3. ASSUME NEW u \in Threads, NEW i \in 1 .. Len(frames[u]), u # t \/ i # Len(frames[t])
      PROVE  ~Locked(frames[u][i]) /\ WorkOK(frames[u][i]) /\ WorkOK(frames[u][i])'
  <2>1. WorkOK(frames[u][i])
    BY DEF Works
  <2>2. ~Locked(frames[u][i])
    <3>1. CASE u = t
      BY <1>3, <3>1, LocksFacts
    <3>2. CASE u # t
      <4>1. Len(frames[u]) \in Nat
        BY LenProperties DEF TypeOK
      <4>2. Locked(frames[u][i]) => lock = u
        BY DEF Locks
      <4>3. Locked(Top(t)) => lock = t
        BY <1>2 DEF Locks
      <4> QED
        BY <3>2, <4>2, <4>3, AddonAssumption
    <3> QED
      BY <3>1, <3>2
  <2>3. frames'[u][i] = frames[u][i]
    BY <1>1, <1>3
  <2> QED
    BY <2>1, <2>2, <2>3 DEF WorkOK, Locked
<1>4. Works'
  <2>1. \A i \in 1 .. Len(frames[t]) : i # Len(frames[t]) => frames[t][i].pc \in {"user", "user_locked"}
    BY DEF Works
  <2> QED
    BY <1>1, <1>2, <1>3, <2>1 DEF Works
<1>5. Locks'
  <2>1. \A i \in 1 .. Len(frames[t]) : i # Len(frames[t]) => frames[t][i].pc = "user"
    BY <1>2, <1>3 DEF Works, Locked, LockedPcs
  <2>2. ASSUME NEW u \in Threads, NEW i \in 1 .. Len(frames'[u]), Locked(frames'[u][i])
        PROVE  u = t /\ i = Len(frames[t])
    BY <1>1, <1>3, <2>2
  <2> QED
    BY <1>1, <1>2, <2>1, <2>2 DEF Locks
<1> QED
  BY <1>4, <1>5

\* Counters that stay at zero, or at what they are.
ZeroKept == \A l \in Libs : map[l].refcount = 0 => map'[l].refcount = 0

\* A DLib that is closed without the mutex goes on.
LEMMA CloseShape ==
  ASSUME TypeOK, Works, Locks, force' = force, lock' = lock, ZeroKept,
         NEW t \in Threads, frames[t] # <<>>, Top(t).pc = "dlclose",
         NEW d \in DLibs(Pcs), Replaced(frames, frames', t, d),
         WorkOK(d)', ~Locked(d)
  PROVE  Works' /\ Locks'
<1>1. /\ Len(frames'[t]) = Len(frames[t]) /\ frames'[t][Len(frames[t])] = d
      /\ \A i \in 1 .. Len(frames[t]) : i # Len(frames[t]) => frames'[t][i] = frames[t][i]
      /\ \A u \in Threads : u # t => frames'[u] = frames[u]
  BY ReplacedFacts
<1>2. Len(frames[t]) \in Nat \ {0} /\ Top(t) = frames[t][Len(frames[t])]
  BY TopFacts
<1>3. ASSUME NEW u \in Threads, NEW i \in 1 .. Len(frames[u]), u # t \/ i # Len(frames[t])
      PROVE  WorkOK(frames[u][i])' /\ (u = t => ~Locked(frames[u][i]))
  <2>1. WorkOK(frames[u][i]) /\ frames[u][i].lib \in Libs
    BY FrameTypes DEF Works
  <2>2. frames'[u][i] = frames[u][i]
    BY <1>1, <1>3
  <2>3. u = t => ~Locked(frames[u][i])
    BY <1>2, <1>3, LocksFacts
  <2> QED
    BY <2>1, <2>2, <2>3 DEF WorkOK, ZeroKept
<1>4. Works'
  BY <1>1, <1>2, <1>3 DEF Works
<1>5. Locks'
  <2>1. ASSUME NEW u \in Threads, NEW i \in 1 .. Len(frames'[u]), Locked(frames'[u][i])
        PROVE  u # t
    BY <1>1, <1>3, <2>1
  <2> QED
    BY <1>1, <2>1 DEF Locks
<1> QED
  BY <1>4, <1>5

\* The innermost DLib of a thread ends.
LEMMA EndShape ==
  ASSUME TypeOK, Works, Locks, force' = force, ZeroKept,
         NEW t \in Threads, frames[t] # <<>>, Dropped(frames, frames', t),
         lock' = lock \/ (lock' = NULL /\ lock = t /\ Top(t).pc \notin {"lock", "user"})
  PROVE  Works' /\ Locks'
<1>1. /\ Len(frames'[t]) = Len(frames[t]) - 1
      /\ \A i \in 1 .. Len(frames'[t]) : frames'[t][i] = frames[t][i]
      /\ \A u \in Threads : u # t => frames'[u] = frames[u]
  BY DroppedFacts
<1>2. Len(frames[t]) \in Nat \ {0}
  BY TopFacts
<1>3. \A u \in Threads : \A i \in 1 .. Len(frames'[u]) :
        i \in 1 .. Len(frames[u]) /\ frames'[u][i] = frames[u][i]
          /\ (u = t => i # Len(frames[t]))
  BY <1>1, <1>2
<1>4. ASSUME NEW u \in Threads, NEW i \in 1 .. Len(frames[u])
      PROVE  /\ WorkOK(frames[u][i]) /\ frames[u][i].lib \in Libs
             /\ frames'[u][i] = frames[u][i] => WorkOK(frames[u][i])'
  <2>1. WorkOK(frames[u][i]) /\ frames[u][i].lib \in Libs
    BY FrameTypes DEF Works
  <2> QED
    BY <2>1 DEF WorkOK, ZeroKept
<1>5. Works'
  <2>1. \A u \in Threads : \A i \in 1 .. Len(frames'[u]) : i # Len(frames'[u]) => i # Len(frames[u])
    BY <1>1, <1>3
  <2> QED
    BY <1>3, <1>4, <2>1 DEF Works
<1>6. Locks'
  <2>1. CASE lock' = lock
    BY <1>3, <2>1 DEF Locks
  <2>2. CASE lock' = NULL /\ lock = t /\ Top(t).pc \notin {"lock", "user"}
    <3>1. ASSUME NEW u \in Threads, NEW i \in 1 .. Len(frames'[u]), Locked(frames'[u][i])
          PROVE  FALSE
      <4>1. i \in 1 .. Len(frames[u]) /\ Locked(frames[u][i]) /\ lock = u
        BY <1>3, <3>1 DEF Locks
      <4>2. u = t /\ i # Len(frames[t])
        BY <1>3, <2>2, <4>1
      <4> QED
        BY <2>2, <4>1, <4>2, LocksFacts
    <3> QED
      BY <3>1 DEF Locks
  <2> QED
    BY <2>1, <2>2
<1> QED
  BY <1>5, <1>6

\* A DLib begins inside an initializer, or alone.
LEMMA BeginShape ==
  ASSUME TypeOK, Works, Locks, UNCHANGED <<force, map, lock>>,
         NEW t \in Threads, NEW d \in DLibs(Pcs), Appended(frames, frames', t, d),
         WorkOK(d), ~Locked(d),
         frames[t] # <<>> => Top(t).pc \in {"user", "user_locked"} /\ d.pc = "lock"
  PROVE  Works' /\ Locks'
<1>1. /\ Len(frames'[t]) = Len(frames[t]) + 1 /\ Len(frames[t]) \in Nat
      /\ frames'[t][Len(frames[t]) + 1] = d
      /\ \A i \in 1 .. Len(frames[t]) : frames'[t][i] = frames[t][i]
      /\ \A u \in Threads : u # t => frames'[u] = frames[u]
  BY AppendedFacts
<1>2. \A f : WorkOK(f) => WorkOK(f)'
  BY DEF WorkOK
<1>3. \A i \in 1 .. Len(frames[t]) : frames[t][i].pc \in {"user", "user_locked"} /\ d.pc = "lock"
  <2> SUFFICES ASSUME NEW i \in 1 .. Len(frames[t])
               PROVE  frames[t][i].pc \in {"user", "user_locked"} /\ d.pc = "lock"
    OBVIOUS
  <2>1. frames[t] # <<>>
    BY <1>1, EmptySeq
  <2>2. Top(t) = frames[t][Len(frames[t])]
    BY <2>1, TopFacts
  <2> QED
    BY <2>1, <2>2 DEF Works
<1>4. Works'
  <2>1. ASSUME NEW u \in Threads, NEW i \in 1 .. Len(frames'[u])
        PROVE  /\ WorkOK(frames[u][i])'
               /\ i # Len(frames'[u]) => frames'[u][i].pc \in {"user", "user_locked"}
    <3>1. CASE u # t
      BY <1>1, <1>2, <3>1 DEF Works
    <3>2. CASE u = t /\ i = Len(frames[t]) + 1
      BY <1>1, <1>2, <3>2
    <3>3. CASE u = t /\ i # Len(frames[t]) + 1
      <4>1. i \in 1 .. Len(frames[t])
        BY <1>1, <3>3
      <4> QED
        BY <1>1, <1>2, <1>3, <3>3, <4>1 DEF Works
    <3> QED
      BY <3>1, <3>2, <3>3
  <2> QED
    BY <2>1 DEF Works
<1>5. Locks'
  <2>1. ASSUME NEW i \in 1 .. Len(frames'[t]), Locked(frames'[t][i])
        PROVE  /\ i \in 1 .. Len(frames[t]) /\ lock' = t
               /\ \A j \in 1 .. Len(frames'[t]) : j # i => frames'[t][j].pc \in {"lock", "user"}
    <3>1. i \in 1 .. Len(frames[t]) /\ Locked(frames[t][i])
      BY <1>1, <2>1
    <3>2. lock = t /\ \A j \in 1 .. Len(frames[t]) : j # i => frames[t][j].pc \in {"lock", "user"}
      BY <3>1 DEF Locks
    <3>3. \A j \in 1 .. Len(frames'[t]) : j \in 1 .. Len(frames[t]) \/ j = Len(frames[t]) + 1
      BY <1>1
    <3> QED
      BY <1>1, <1>3, <3>1, <3>2, <3>3
  <2> QED
    BY <1>1, <2>1 DEF Locks
<1> QED
  BY <1>4, <1>5

\* No DLib changes.
LEMMA RestShape ==
  ASSUME TypeOK, Works, Locks, UNCHANGED <<force, frames, lock>>, ZeroKept
  PROVE  Works' /\ Locks'
<1>1. ASSUME NEW u \in Threads, NEW i \in 1 .. Len(frames[u])
      PROVE  WorkOK(frames[u][i])'
  <2>1. WorkOK(frames[u][i]) /\ frames[u][i].lib \in Libs
    BY FrameTypes DEF Works
  <2> QED
    BY <2>1 DEF WorkOK, ZeroKept
<1> QED
  BY <1>1 DEF Works, Locks

-----------------------------------------------------------------------------
(* The counts.                                                             *)

LEMMA OneIs ==
  ASSUME NEW d, d \in DLibs(Pcs) \/ d \in DLibs({"loaded"}), NEW l
  PROVE  /\ One(d, Opening(l)) =
              IF d.lib = l /\ d.pc \notin {"lock", "open", "erase"} THEN 1 ELSE 0
         /\ One(d, Saved(l)) = IF d.lib = l /\ d.saved THEN 1 ELSE 0
<1>1. d \in DLibs(Pcs \cup {"loaded"})
  BY DEF DLibs
<1> QED
  BY <1>1 DEF One, Opening, Saved

LEMMA TotalTypes ==
  ASSUME TypeOK, NEW D
  PROVE  /\ frames \in Stacks(DLibs(Pcs)) /\ addons \in Stacks(DLibs({"loaded"}))
         /\ Number(frames, D) \in Nat /\ Number(addons, D) \in Nat /\ Total(D) \in Nat
<1>1. frames \in Stacks(DLibs(Pcs)) /\ addons \in Stacks(DLibs({"loaded"}))
  BY DEF TypeOK, Stacks
<1>2. Number(frames, D) \in Nat /\ Number(addons, D) \in Nat
  BY <1>1, PlacesFinite
<1> QED
  BY <1>1, <1>2 DEF Total

\* A DLib at work is counted.
LEMMA TotalOfTop ==
  ASSUME TypeOK, NEW D, NEW t \in Threads, frames[t] # <<>>
  PROVE  One(Top(t), D) <= Total(D) /\ One(Top(t), D) \in Nat /\ Total(D) \in Nat
<1> DEFINE hs == [frames EXCEPT ![t] = Front(@)]
<1>1. Dropped(frames, hs, t)
  BY DEF Dropped
<1> HIDE DEF hs
<1>2. hs \in Stacks(DLibs(Pcs)) /\ Number(hs, D) = Number(frames, D) - One(Last(frames[t]), D)
  BY <1>1, TotalTypes, NumberFront
<1>3. Number(hs, D) \in Nat /\ One(Top(t), D) \in Nat
  BY <1>2, PlacesFinite DEF One
<1> QED
  BY <1>2, <1>3, TotalTypes DEF Top, Total

LEMMA TotalReplaced ==
  ASSUME TypeOK, NEW t \in Threads, frames[t] # <<>>, NEW d \in DLibs(Pcs),
         Replaced(frames, frames', t, d), addons' = addons, NEW D
  PROVE  Total(D)' = Total(D) - One(Top(t), D) + One(d, D)
<1>1. Number(frames', D) = Number(frames, D) - One(Last(frames[t]), D) + One(d, D)
  BY TotalTypes, NumberReplace
<1>2. One(Top(t), D) \in Nat /\ One(d, D) \in Nat
  BY DEF One
<1> QED
  BY <1>1, <1>2, TotalTypes DEF Top, Total, Number

LEMMA TotalDropped ==
  ASSUME TypeOK, NEW t \in Threads, frames[t] # <<>>, Dropped(frames, frames', t),
         addons' = addons, NEW D
  PROVE  Total(D)' = Total(D) - One(Top(t), D)
<1>1. Number(frames', D) = Number(frames, D) - One(Last(frames[t]), D)
  BY TotalTypes, NumberFront
<1>2. One(Top(t), D) \in Nat
  BY DEF One
<1> QED
  BY <1>1, <1>2, TotalTypes DEF Top, Total, Number

LEMMA TotalMoved ==
  ASSUME TypeOK, NEW t \in Threads, frames[t] # <<>>, Dropped(frames, frames', t),
         NEW d \in DLibs({"loaded"}), Appended(addons, addons', t, d), NEW D
  PROVE  /\ Total(D)' = Total(D) - One(Top(t), D) + One(d, D)
         /\ addons' \in [Threads -> Seq(DLibs({"loaded"}))]
<1>1. Number(frames', D) = Number(frames, D) - One(Last(frames[t]), D)
  BY TotalTypes, NumberFront
<1>2. /\ addons' \in Stacks(DLibs({"loaded"}))
      /\ Number(addons', D) = Number(addons, D) + One(d, D)
  BY TotalTypes, NumberAppend
<1>3. One(Top(t), D) \in Nat /\ One(d, D) \in Nat
  BY DEF One
<1> QED
  BY <1>1, <1>2, <1>3, TotalTypes DEF Top, Total, Number, Stacks

LEMMA TotalAppended ==
  ASSUME TypeOK, NEW t \in Threads, NEW d \in DLibs(Pcs), Appended(frames, frames', t, d),
         addons' = addons, NEW D
  PROVE  Total(D)' = Total(D) + One(d, D)
<1>1. Number(frames', D) = Number(frames, D) + One(d, D)
  BY TotalTypes, NumberAppend
<1>2. One(d, D) \in Nat
  BY DEF One
<1> QED
  BY <1>1, <1>2, TotalTypes DEF Total, Number

LEMMA TotalTaken ==
  ASSUME TypeOK, NEW t \in Threads, NEW d \in DLibs(Pcs), Appended(frames, frames', t, d),
         addons[t] # <<>>, Beheaded(addons, addons', t), NEW D
  PROVE  /\ Total(D)' = Total(D) - One(Head(addons[t]), D) + One(d, D)
         /\ addons' \in [Threads -> Seq(DLibs({"loaded"}))]
<1>1. Number(frames', D) = Number(frames, D) + One(d, D)
  BY TotalTypes, NumberAppend
<1>2. /\ addons' \in Stacks(DLibs({"loaded"}))
      /\ Number(addons', D) = Number(addons, D) - One(Head(addons[t]), D)
  BY TotalTypes, NumberTail
<1>3. One(Head(addons[t]), D) \in Nat /\ One(d, D) \in Nat
  BY DEF One
<1> QED
  BY <1>1, <1>2, <1>3, TotalTypes DEF Total, Number, Stacks

LEMMA TotalSame ==
  ASSUME UNCHANGED <<frames, addons>>, NEW D
  PROVE  Total(D)' = Total(D)
BY DEF Total, Number

\* How many threads have a library open through the FFI.
LEMMA UsersType == \A l : Users(l) \in Nat
<1> SUFFICES ASSUME NEW l PROVE Users(l) \in Nat
  OBVIOUS
<1>1. {t \in Threads : l \in ffi[t]} \in SUBSET Threads /\ IsFiniteSet(Threads)
  BY AddonAssumption
<1>2. IsFiniteSet({t \in Threads : l \in ffi[t]})
  BY <1>1, FS_Subset
<1> QED
  BY <1>2, FS_CardinalityType DEF Users

-----------------------------------------------------------------------------
(* The steps.                                                              *)

\* Steps that register nothing and save no module.
LEMMA AliveKept ==
  ASSUME Alive, force' = force,
         \A l \in Libs : map'[l].refcount > 0 => map[l].refcount > 0,
         \A l \in Libs : \/ opens'[l] = 0 \/ map'[l].refcount = 0
                         \/ /\ opens[l] # 0 /\ map[l].refcount # 0
                            /\ map[l].module = "live" => map'[l].module = "live",
         \A u \in Threads : At(u, "self_registered") =>
           At(u, "self_registered")' /\ Top(u).lib' = Top(u).lib
  PROVE  Alive'
BY DEF Alive

\* Steps that change neither the counters nor what they count.
LEMMA CountsKept ==
  ASSUME Counts, UNCHANGED <<unclosed, opens, ffi>>,
         \A l \in Libs : map'[l].refcount = map[l].refcount,
         \A l \in Libs : /\ Total(Opening(l))' = Total(Opening(l))
                         /\ Total(Saved(l))' = Total(Saved(l))
  PROVE  Counts'
<1>1. \A l \in Libs : Users(l)' = Users(l)
  BY DEF Users
<1>2. \A l \in Libs : OpenNow(l)' = OpenNow(l) /\ SavedNow(l)' = SavedNow(l)
  BY <1>1 DEF OpenNow, SavedNow
<1> QED
  BY <1>2 DEF Counts

LEMMA LockIInv ==
  ASSUME IInv, NEW t \in Threads, Lock(t)
  PROVE  IInv'
<1>1. TypeOK /\ Counts /\ Works /\ Loads /\ Locks /\ Holder /\ Alive /\ Pendings
  BY DEF IInv
<1>2. /\ frames[t] # <<>> /\ Top(t).pc = "lock" /\ lock = NULL /\ lock' = t /\ GoTo(t, "open")
      /\ UNCHANGED <<musl, force, opens, unclosed, map, pending, addons, leaving, ffi, aborted>>
  BY DEF Lock, At
<1>3. PICK d \in DLibs(Pcs) :
        /\ Replaced(frames, frames', t, d)
        /\ d.pc = "open" /\ d.lib = Top(t).lib /\ d.entry = Top(t).entry
        /\ d.saved = Top(t).saved
  BY <1>1, <1>2, GoToFacts DEF Pcs
<1>4. /\ frames' \in [Threads -> Seq(DLibs(Pcs))] /\ frames'[t] # <<>> /\ Last(frames'[t]) = d
      /\ \A u \in Threads : u # t => frames'[u] = frames[u]
  BY <1>1, <1>2, <1>3, ReplacedFacts
<1>5. TypeOK'
  BY <1>1, <1>2, <1>4 DEF TypeOK
<1>6. Works' /\ Locks'
  <2>1. WorkOK(Top(t)) /\ t # NULL
    BY <1>1, <1>2, TopFacts, AddonAssumption DEF Works
  <2>2. WorkOK(d)'
    BY <1>2, <1>3, <2>1 DEF WorkOK
  <2> QED
    BY <1>1, <1>2, <1>3, <2>2, AdvanceShape
<1>7. Counts'
  <2>1. ASSUME NEW l \in Libs
        PROVE  /\ Total(Opening(l))' = Total(Opening(l))
               /\ Total(Saved(l))' = Total(Saved(l))
    <3>1. /\ One(d, Opening(l)) = One(Top(t), Opening(l))
          /\ One(d, Saved(l)) = One(Top(t), Saved(l))
      BY <1>1, <1>2, <1>3, TopFacts, OneIs
    <3>2. \A D : Total(D)' = Total(D) - One(Top(t), D) + One(d, D)
      BY <1>1, <1>2, <1>3, TotalReplaced
    <3>3. \A D : Total(D) \in Nat /\ One(Top(t), D) \in Nat
      BY <1>1, <1>2, TotalOfTop
    <3> QED
      BY <3>1, <3>2, <3>3
  <2> QED
    BY <1>1, <1>2, <2>1, CountsKept
<1>8. Holder'
  BY <1>2, <1>3, <1>4 DEF Holder, Nested, Top, LockedPcs
<1>9. Alive'
  BY <1>1, <1>2, <1>4, AliveKept DEF At, Top
<1> QED
  BY <1>1, <1>2, <1>5, <1>6, <1>7, <1>8, <1>9 DEF IInv, Loads, Pendings

\* What the invariant says of a thread's innermost DLib.
LEMMA TopWork ==
  ASSUME TypeOK, Works, Locks, NEW t \in Threads, frames[t] # <<>>
  PROVE  WorkOK(Top(t)) /\ (Locked(Top(t)) => lock = t) /\ t # NULL
<1>1. Len(frames[t]) \in 1 .. Len(frames[t]) /\ Top(t) = frames[t][Len(frames[t])]
  BY TopFacts
<1> QED
  BY <1>1, AddonAssumption DEF Works, Locks

\* One entry of the handle map changes.
Entries == [refcount : Nat, module : {"none", "live", "stale"}]

LEMMA EntryChanged ==
  ASSUME TypeOK, NEW l \in Libs, NEW e \in Entries, map' = [map EXCEPT ![l] = e]
  PROVE  map' \in [Libs -> Entries] /\ map'[l] = e /\ \A k \in Libs : k # l => map'[k] = map[k]
<1>1. map \in [Libs -> Entries]
  BY DEF TypeOK, Entries
<1> QED
  BY <1>1

LEMMA DLOpenIInv ==
  ASSUME IInv, NEW t \in Threads, NEW l \in Libs, DLOpen(t, l)
  PROVE  IInv'
<1>1. TypeOK /\ Counts /\ Works /\ Loads /\ Locks /\ Holder /\ Alive /\ Pendings
  BY DEF IInv
<1>2. /\ frames[t] # <<>> => Top(t).pc \in {"user", "user_locked"}
      /\ UNCHANGED <<musl, force, opens, unclosed, map, lock, pending, addons, leaving, ffi>>
  BY DEF DLOpen, RunsUserCode
<1>3. CASE pending[t] # NULL
  <2>1. UNCHANGED frames /\ aborted' = TRUE /\ ~Quiet
    BY <1>1, <1>3 DEF DLOpen, Pendings
  <2>2. TypeOK'
    BY <1>1, <1>2, <2>1 DEF TypeOK
  <2>3. Works' /\ Locks'
    BY <1>1, <1>2, <2>1, RestShape DEF ZeroKept
  <2>4. Counts'
    BY <1>1, <1>2, <2>1, TotalSame, CountsKept
  <2>5. Alive'
    BY <1>1, <1>2, <2>1, AliveKept DEF At, Top
  <2> QED
    BY <1>1, <1>2, <2>1, <2>2, <2>3, <2>4, <2>5 DEF IInv, Loads, Holder, Nested, Top, Pendings
<1>4. CASE pending[t] = NULL
  <2> DEFINE d == [lib |-> l, pc |-> "lock", entry |-> FALSE, saved |-> FALSE]
  <2>1. Appended(frames, frames', t, d) /\ UNCHANGED aborted
    BY <1>4 DEF DLOpen, Appended
  <2>2. d \in DLibs(Pcs) /\ d.lib = l /\ d.pc = "lock" /\ ~d.entry /\ ~d.saved
    BY DEF DLibs, Pcs
  <2>3. WorkOK(d) /\ ~Locked(d)
    BY DEF WorkOK, Locked, LockedPcs
  <2> HIDE DEF d
  <2>4. /\ frames' \in [Threads -> Seq(DLibs(Pcs))] /\ frames'[t] # <<>> /\ Last(frames'[t]) = d
        /\ \A u \in Threads : u # t => frames'[u] = frames[u]
    BY <1>1, <2>1, <2>2, AppendedFacts
  <2>5. TypeOK'
    BY <1>1, <1>2, <2>1, <2>4 DEF TypeOK
  <2>6. Works' /\ Locks'
    BY <1>1, <1>2, <2>1, <2>2, <2>3, BeginShape
  <2>7. Counts'
    <3>1. ASSUME NEW k \in Libs
          PROVE  /\ Total(Opening(k))' = Total(Opening(k))
                 /\ Total(Saved(k))' = Total(Saved(k))
      <4>1. One(d, Opening(k)) = 0 /\ One(d, Saved(k)) = 0
        BY <2>2, OneIs
      <4>2. \A D : Total(D)' = Total(D) + One(d, D)
        BY <1>1, <1>2, <2>1, <2>2, TotalAppended
      <4>3. \A D : Total(D) \in Nat
        BY <1>1, TotalTypes
      <4> QED
        BY <4>1, <4>2, <4>3
    <3> QED
      BY <1>1, <1>2, <3>1, CountsKept
  <2>8. Holder'
    <3>1. ASSUME lock = t PROVE Nested(t)' /\ Top(t)'.pc = "lock"
      <4>1. frames[t] # <<>> /\ Top(t).pc = "user_locked"
        BY <1>1, <1>2, <3>1 DEF Holder, LockedPcs
      <4>2. Len(frames[t]) \in Nat \ {0} /\ Top(t) = frames[t][Len(frames[t])]
        BY <1>1, <4>1, TopFacts
      <4>3. /\ Len(frames'[t]) = Len(frames[t]) + 1
            /\ frames'[t][Len(frames[t])] = frames[t][Len(frames[t])]
        BY <1>1, <2>1, <2>2, <4>2, AppendedFacts
      <4> QED
        BY <2>2, <2>4, <4>1, <4>2, <4>3 DEF Nested, Top
    <3>2. frames'[t] # <<>> /\ lock' = lock
      BY <1>2, <2>4
    <3>3. \A u \in Threads : u # t => Nested(u)' = Nested(u) /\ Top(u)' = Top(u)
      BY <2>4 DEF Nested, Top
    <3> QED
      BY <1>1, <2>4, <3>1, <3>2, <3>3 DEF Holder
  <2>9. Alive'
    <3>1. \A u \in Threads : At(u, "self_registered") => u # t
      BY <1>2 DEF At
    <3> QED
      BY <1>1, <1>2, <2>4, <3>1, AliveKept DEF At, Top
  <2> QED
    BY <1>1, <1>2, <2>1, <2>5, <2>6, <2>7, <2>8, <2>9 DEF IInv, Loads, Pendings
<1> QED
  BY <1>3, <1>4

LEMMA OpenIInv ==
  ASSUME IInv, NEW t \in Threads, Open(t)
  PROVE  IInv'
<1> DEFINE l == Top(t).lib
           pc == IF Registers(l) THEN "self_registered" ELSE "no_module"
<1>1. TypeOK /\ Counts /\ Works /\ Loads /\ Locks /\ Holder /\ Alive /\ Pendings
  BY DEF IInv
<1>2. /\ frames[t] # <<>> /\ Top(t).pc = "open" /\ GoTo(t, pc)
      /\ opens' = [opens EXCEPT ![l] = @ + 1]
      /\ pending' = [pending EXCEPT ![t] = NULL]
      /\ UNCHANGED <<musl, force, unclosed, map, lock, addons, leaving, ffi, aborted>>
  BY DEF Open, At
<1>3. PICK d \in DLibs(Pcs) :
        /\ Replaced(frames, frames', t, d)
        /\ d.pc = pc /\ d.lib = Top(t).lib /\ d.entry = Top(t).entry
        /\ d.saved = Top(t).saved
  BY <1>1, <1>2, GoToFacts DEF Pcs
<1>4. /\ frames' \in [Threads -> Seq(DLibs(Pcs))] /\ frames'[t] # <<>> /\ Last(frames'[t]) = d
      /\ \A u \in Threads : u # t => frames'[u] = frames[u]
  BY <1>1, <1>2, <1>3, ReplacedFacts
<1>5. /\ l \in Libs /\ opens \in [Libs -> Nat] /\ opens'[l] = opens[l] + 1
      /\ \A k \in Libs : k # l => opens'[k] = opens[k]
  BY <1>1, <1>2, TopFacts DEF TypeOK
<1>6. TypeOK'
  <2>1. opens' \in [Libs -> Nat]
    BY <1>2, <1>5
  <2> QED
    BY <1>1, <1>2, <1>4, <2>1 DEF TypeOK
<1>7. Works' /\ Locks'
  <2>1. WorkOK(Top(t)) /\ Locked(Top(t)) /\ lock = t
    BY <1>1, <1>2, TopWork DEF Locked, LockedPcs
  <2>2. WorkOK(d)'
    BY <1>2, <1>3, <2>1 DEF WorkOK, Registers
  <2> QED
    BY <1>1, <1>2, <1>3, <2>1, <2>2, AdvanceShape
<1>8. Counts'
  <2>1. ASSUME NEW k \in Libs
        PROVE  OpenNow(k)' = OpenNow(k) + (IF k = l THEN 1 ELSE 0) /\ SavedNow(k)' = SavedNow(k)
    <3>1. /\ One(Top(t), Opening(k)) = 0 /\ One(d, Opening(k)) = IF k = l THEN 1 ELSE 0
          /\ One(d, Saved(k)) = One(Top(t), Saved(k))
      BY <1>1, <1>2, <1>3, TopFacts, OneIs
    <3>2. \A D : Total(D)' = Total(D) - One(Top(t), D) + One(d, D)
      BY <1>1, <1>2, <1>3, TotalReplaced
    <3>3. \A D : Total(D) \in Nat /\ One(Top(t), D) \in Nat
      BY <1>1, <1>2, TotalOfTop
    <3>4. Users(k)' = Users(k) /\ Users(k) \in Nat
      BY <1>2, UsersType DEF Users
    <3> QED
      BY <3>1, <3>2, <3>3, <3>4 DEF OpenNow, SavedNow
  <2>2. \A k \in Libs : OpenNow(k) \in Nat
    BY <1>1, TotalTypes, UsersType DEF OpenNow
  <2> HIDE DEF l
  <2> QED
    BY <1>1, <1>2, <1>5, <2>1, <2>2 DEF Counts
<1>9. Holder'
  BY <1>1, <1>2, <1>3, <1>4 DEF Holder, Nested, Top, LockedPcs
<1>10. Alive'
  <2>1. \A u \in Threads : At(u, "self_registered") =>
          At(u, "self_registered")' /\ Top(u).lib' = Top(u).lib
    BY <1>2, <1>4 DEF At, Top
  <2>2. ASSUME Quiet
        PROVE  \/ force /\ ~Addon[l].context
               \/ map[l].refcount = 0 \/ map[l].module = "live"
               \/ \E u \in Threads : At(u, "self_registered")' /\ Top(u).lib' = l
    <3>1. CASE Registers(l)
      <4>1. At(t, "self_registered")' /\ Top(t).lib' = l
        BY <1>3, <1>4, <3>1 DEF At, Top
      <4> QED
        BY <4>1
    <3>2. CASE opens[l] # 0
      BY <1>1, <1>5, <2>1, <2>2, <3>2 DEF Alive
    <3>3. CASE ~Addon[l].self
      BY <1>1, <1>5, <3>3, TopFacts DEF Alive, TypeOK
    <3> QED
      BY <3>1, <3>2, <3>3 DEF Registers
  <2> HIDE DEF l
  <2> QED
    BY <1>1, <1>2, <1>5, <2>1, <2>2 DEF Alive
<1>11. Pendings'
  BY <1>1, <1>2 DEF Pendings, TypeOK
<1> QED
  BY <1>1, <1>2, <1>6, <1>7, <1>8, <1>9, <1>10, <1>11 DEF IInv, Loads

LEMMA OpenFailsIInv ==
  ASSUME IInv, NEW t \in Threads, OpenFails(t)
  PROVE  IInv'
<1>1. TypeOK /\ Counts /\ Works /\ Loads /\ Locks /\ Holder /\ Alive /\ Pendings
  BY DEF IInv
<1>2. /\ frames[t] # <<>> /\ Top(t).pc = "open" /\ Dropped(frames, frames', t)
      /\ lock' = NULL /\ pending' = [pending EXCEPT ![t] = NULL]
      /\ UNCHANGED <<musl, force, opens, unclosed, map, addons, leaving, ffi, aborted>>
  BY DEF OpenFails, At, Pop, Dropped
<1>3. /\ frames' \in [Threads -> Seq(DLibs(Pcs))]
      /\ \A u \in Threads : u # t => frames'[u] = frames[u]
  BY <1>1, <1>2, DroppedFacts
<1>4. WorkOK(Top(t)) /\ lock = t
  BY <1>1, <1>2, TopWork DEF Locked, LockedPcs
<1>5. TypeOK'
  BY <1>1, <1>2, <1>3 DEF TypeOK
<1>6. Works' /\ Locks'
  BY <1>1, <1>2, <1>4, EndShape DEF ZeroKept
<1>7. Counts'
  <2>1. ASSUME NEW l \in Libs
        PROVE  /\ Total(Opening(l))' = Total(Opening(l))
               /\ Total(Saved(l))' = Total(Saved(l))
    <3>1. One(Top(t), Opening(l)) = 0 /\ One(Top(t), Saved(l)) = 0
      BY <1>1, <1>2, <1>4, TopFacts, OneIs DEF WorkOK
    <3>2. \A D : Total(D)' = Total(D) - One(Top(t), D) /\ Total(D) \in Nat
      BY <1>1, <1>2, TotalDropped, TotalTypes
    <3> QED
      BY <3>1, <3>2
  <2> QED
    BY <1>1, <1>2, <2>1, CountsKept
<1>8. Holder'
  BY <1>2, AddonAssumption DEF Holder
<1>9. Alive'
  BY <1>1, <1>2, <1>3, AliveKept DEF At, Top
<1> QED
  BY <1>1, <1>2, <1>5, <1>6, <1>7, <1>8, <1>9 DEF IInv, Loads, Pendings, TypeOK

LEMMA SaveModuleIInv ==
  ASSUME IInv, NEW t \in Threads, SaveModule(t)
  PROVE  IInv'
<1> DEFINE l == Top(t).lib
           kept == ~(force /\ ~Addon[l].context)
<1>1. TypeOK /\ Counts /\ Works /\ Loads /\ Locks /\ Holder /\ Alive /\ Pendings
  BY DEF IInv
<1>2. /\ frames[t] # <<>> /\ Top(t).pc = "self_registered"
      /\ ~kept => GoTo(t, "dlclose") /\ UNCHANGED map
      /\ kept => /\ map' = SetInMap(l)
                 /\ frames' = [frames EXCEPT ![t][Len(frames[t])] =
                                 [@ EXCEPT !.pc = "version", !.entry = TRUE, !.saved = TRUE]]
      /\ UNCHANGED <<musl, force, opens, unclosed, lock, pending, addons, leaving, ffi, aborted>>
  BY DEF SaveModule, At
<1>3. /\ WorkOK(Top(t)) /\ Locked(Top(t)) /\ lock = t
      /\ ~Top(t).entry /\ ~Top(t).saved /\ Addon[l].self
  BY <1>1, <1>2, TopWork DEF Locked, LockedPcs, WorkOK
<1>4. PICK d \in DLibs(Pcs) :
        /\ Replaced(frames, frames', t, d)
        /\ d.lib = l /\ (d.saved <=> kept) /\ (d.entry <=> kept)
        /\ d.pc = IF kept THEN "version" ELSE "dlclose"
  <2>1. CASE ~kept
    BY <1>1, <1>2, <1>3, <2>1, GoToFacts DEF Pcs
  <2>2. CASE kept
    <3> DEFINE e == [Top(t) EXCEPT !.pc = "version", !.entry = TRUE, !.saved = TRUE]
    <3>1. frames[t] \in Seq(DLibs(Pcs)) /\ Len(frames[t]) \in DOMAIN frames[t]
      BY <1>1, <1>2, TopFacts, LenProperties DEF TypeOK
    <3>2. Replaced(frames, frames', t, e)
      BY <1>1, <1>2, <2>2, <3>1, TopFacts DEF Replaced, Top, DLibs, Last
    <3>3. e \in DLibs(Pcs) /\ e.lib = l /\ e.saved /\ e.entry /\ e.pc = "version"
      BY <1>1, <1>2, TopFacts DEF DLibs, Pcs
    <3> QED
      BY <2>2, <3>2, <3>3
  <2> QED
    BY <2>1, <2>2
<1>5. /\ frames' \in [Threads -> Seq(DLibs(Pcs))] /\ frames'[t] # <<>> /\ Last(frames'[t]) = d
      /\ \A u \in Threads : u # t => frames'[u] = frames[u]
  BY <1>1, <1>2, <1>4, ReplacedFacts
<1>6. /\ map' \in [Libs -> [refcount : Nat, module : {"none", "live", "stale"}]]
      /\ l \in Libs /\ map[l].refcount \in Nat
      /\ map'[l].refcount = map[l].refcount + (IF kept THEN 1 ELSE 0)
      /\ kept => map'[l].module = "live"
      /\ \A k \in Libs : k # l => map'[k] = map[k]
  <2>1. map[l] \in [refcount : Nat, module : {"none", "live", "stale"}] /\ l \in Libs
    BY <1>1, <1>2, TopFacts DEF TypeOK
  <2> HIDE DEF l
  <2>2. CASE kept
    <3> DEFINE e == [refcount |-> map[l].refcount + 1, module |-> "live"]
    <3>1. map' = [map EXCEPT ![l] = e]
      BY <1>2, <2>2 DEF SetInMap
    <3>2. e \in Entries /\ e.refcount = map[l].refcount + 1 /\ e.module = "live"
      BY <2>1 DEF Entries
    <3> HIDE DEF e, kept
    <3>3. map' \in [Libs -> Entries] /\ map'[l] = e /\ \A k \in Libs : k # l => map'[k] = map[k]
      BY <1>1, <2>1, <3>1, <3>2, EntryChanged
    <3> QED
      BY <2>1, <2>2, <3>2, <3>3 DEF Entries
  <2>3. CASE ~kept
    BY <1>1, <1>2, <2>1, <2>3 DEF TypeOK
  <2> QED
    BY <2>2, <2>3
<1>7. TypeOK'
  BY <1>1, <1>2, <1>5, <1>6 DEF TypeOK
<1>8. Works' /\ Locks'
  <2>1. WorkOK(d)'
    BY <1>2, <1>4 DEF WorkOK
  <2>2. Locked(d) => lock' = t
    BY <1>2, <1>3
  <2> QED
    BY <1>1, <1>2, <1>3, <1>4, <2>1, <2>2, AdvanceShape
<1>9. Counts'
  <2>1. ASSUME NEW k \in Libs
        PROVE  /\ OpenNow(k)' = OpenNow(k)
               /\ SavedNow(k)' = SavedNow(k) + (IF k = l /\ kept THEN 1 ELSE 0)
    <3>1. /\ One(Top(t), Opening(k)) = One(d, Opening(k)) /\ One(Top(t), Saved(k)) = 0
          /\ One(d, Saved(k)) = IF k = l /\ kept THEN 1 ELSE 0
      BY <1>1, <1>2, <1>3, <1>4, TopFacts, OneIs
    <3>2. \A D : Total(D)' = Total(D) - One(Top(t), D) + One(d, D)
      BY <1>1, <1>2, <1>4, TotalReplaced
    <3>3. \A D : Total(D) \in Nat /\ One(Top(t), D) \in Nat
      BY <1>1, <1>2, TotalOfTop
    <3>4. Users(k)' = Users(k) /\ Users(k) \in Nat
      BY <1>2, UsersType DEF Users
    <3> HIDE DEF kept, l
    <3> QED
      BY <3>1, <3>2, <3>3, <3>4 DEF OpenNow, SavedNow
  <2>2. \A k \in Libs : SavedNow(k) \in Nat
    BY <1>1, TotalTypes DEF SavedNow
  <2>3. \A k \in Libs : map'[k].refcount = map[k].refcount + (IF k = l /\ kept THEN 1 ELSE 0)
                        /\ map[k].refcount \in Nat
    BY <1>1, <1>6 DEF TypeOK
  <2> HIDE DEF kept, l
  <2> QED
    BY <1>1, <1>2, <2>1, <2>2, <2>3 DEF Counts
<1>10. Holder'
  BY <1>1, <1>2, <1>4, <1>5 DEF Holder, Nested, Top, LockedPcs
<1>11. Alive'
  <2>1. \A u \in Threads : At(u, "self_registered") /\ Top(u).lib # l =>
          At(u, "self_registered")' /\ Top(u).lib' = Top(u).lib
    BY <1>2, <1>5 DEF At, Top
  <2>2. \A k \in Libs : map'[k].refcount > 0 => Addon[k].self
    BY <1>1, <1>3, <1>6 DEF Alive
  <2>3. kept <=> ~(force /\ ~Addon[l].context)
    OBVIOUS
  <2> HIDE DEF l, kept
  <2> QED
    BY <1>1, <1>2, <1>6, <2>1, <2>2, <2>3 DEF Alive
<1> QED
  BY <1>1, <1>2, <1>7, <1>8, <1>9, <1>10, <1>11 DEF IInv, Loads, Pendings

LEMMA FindModuleIInv ==
  ASSUME IInv, NEW t \in Threads, FindModule(t)
  PROVE  IInv'
<1> DEFINE l == Top(t).lib
           found == ~Addon[l].callback /\ map[l].refcount > 0
           pc == IF Addon[l].callback THEN "user_locked"
                 ELSE IF found /\ Addon[l].context THEN "version" ELSE "dlclose"
<1>1. TypeOK /\ Counts /\ Works /\ Loads /\ Locks /\ Holder /\ Alive /\ Pendings
  BY DEF IInv
<1>2. /\ frames[t] # <<>> /\ Top(t).pc = "no_module"
      /\ Addon[l].callback => GoTo(t, pc) /\ UNCHANGED map
      /\ ~Addon[l].callback =>
           /\ map' = IF found THEN CountedInMap(l) ELSE map
           /\ frames' = [frames EXCEPT ![t][Len(frames[t])] =
                           [@ EXCEPT !.pc = pc, !.entry = TRUE, !.saved = found]]
      /\ UNCHANGED <<musl, force, opens, unclosed, lock, pending, addons, leaving, ffi, aborted>>
  <2>1. CASE Addon[l].callback
    BY <2>1 DEF FindModule, At
  <2>2. CASE ~Addon[l].callback
    <3> DEFINE has == map[l].refcount > 0
               next == IF has /\ Addon[l].context THEN "version" ELSE "dlclose"
    <3>1. /\ frames[t] # <<>> /\ Top(t).pc = "no_module"
          /\ map' = IF has THEN CountedInMap(l) ELSE map
          /\ frames' = [frames EXCEPT ![t][Len(frames[t])] =
                          [@ EXCEPT !.pc = next, !.entry = TRUE, !.saved = has]]
          /\ UNCHANGED <<musl, force, opens, unclosed, lock, pending, addons, leaving, ffi, aborted>>
      BY <2>2, Zenon DEF FindModule, At
    <3>2. found = has /\ pc = next
      BY <2>2
    <3> HIDE DEF has, next, found, pc
    <3> QED
      BY <2>2, <3>1, <3>2
  <2> QED
    BY <2>1, <2>2
<1>3. /\ WorkOK(Top(t)) /\ Locked(Top(t)) /\ lock = t
      /\ ~Top(t).entry /\ ~Top(t).saved
  BY <1>1, <1>2, TopWork DEF Locked, LockedPcs, WorkOK
<1>4. PICK d \in DLibs(Pcs) :
        /\ Replaced(frames, frames', t, d)
        /\ d.lib = l /\ (d.saved <=> found) /\ (d.entry <=> ~Addon[l].callback)
        /\ d.pc = pc
  <2>0. pc \in Pcs /\ found \in BOOLEAN
    BY DEF Pcs
  <2>1. CASE Addon[l].callback
    <3>1. ~found
      BY <2>1
    <3> HIDE DEF pc, found
    <3> QED
      BY <1>1, <1>2, <1>3, <2>0, <2>1, <3>1, GoToFacts
  <2>2. CASE ~Addon[l].callback
    <3> HIDE DEF pc, found
    <3> DEFINE e == [Top(t) EXCEPT !.pc = pc, !.entry = TRUE, !.saved = found]
    <3>1. frames[t] \in Seq(DLibs(Pcs)) /\ Len(frames[t]) \in DOMAIN frames[t]
      BY <1>1, <1>2, TopFacts, LenProperties DEF TypeOK
    <3>2. Replaced(frames, frames', t, e)
      BY <1>1, <1>2, <2>2, <3>1, TopFacts DEF Replaced, Top, DLibs, Last
    <3>3. e \in DLibs(Pcs) /\ e.lib = l /\ (e.saved <=> found) /\ e.entry /\ e.pc = pc
      BY <1>1, <1>2, <2>0, TopFacts DEF DLibs
    <3> QED
      BY <2>2, <3>2, <3>3
  <2> QED
    BY <2>1, <2>2
<1>5. /\ frames' \in [Threads -> Seq(DLibs(Pcs))] /\ frames'[t] # <<>> /\ Last(frames'[t]) = d
      /\ \A u \in Threads : u # t => frames'[u] = frames[u]
  BY <1>1, <1>2, <1>4, ReplacedFacts
<1>6. /\ map' \in [Libs -> [refcount : Nat, module : {"none", "live", "stale"}]]
      /\ l \in Libs /\ map[l].refcount \in Nat
      /\ map'[l].refcount = map[l].refcount + (IF found THEN 1 ELSE 0)
      /\ map'[l].module = map[l].module
      /\ \A k \in Libs : k # l => map'[k] = map[k]
  <2>1. map[l] \in [refcount : Nat, module : {"none", "live", "stale"}] /\ l \in Libs
    BY <1>1, <1>2, TopFacts DEF TypeOK
  <2>2. map' = IF found THEN CountedInMap(l) ELSE map
    BY <1>2
  <2> HIDE DEF l, found
  <2>3. CASE found
    <3> DEFINE e == [map[l] EXCEPT !.refcount = @ + 1]
    <3>1. map' = [map EXCEPT ![l] = e]
      BY <2>2, <2>3 DEF CountedInMap
    <3>2. e \in Entries /\ e.refcount = map[l].refcount + 1 /\ e.module = map[l].module
      BY <2>1 DEF Entries
    <3> HIDE DEF e
    <3>3. map' \in [Libs -> Entries] /\ map'[l] = e /\ \A k \in Libs : k # l => map'[k] = map[k]
      BY <1>1, <2>1, <3>1, <3>2, EntryChanged
    <3> QED
      BY <2>1, <2>3, <3>2, <3>3 DEF Entries
  <2>4. CASE ~found
    BY <1>1, <2>1, <2>2, <2>4 DEF TypeOK
  <2> QED
    BY <2>3, <2>4
<1>7. TypeOK'
  BY <1>1, <1>2, <1>5, <1>6 DEF TypeOK
<1>8. Works' /\ Locks'
  <2>1. WorkOK(d)'
    <3>1. d.entry /\ ~d.saved => d.pc = "dlclose" /\ map'[l].refcount = 0
      BY <1>4, <1>6
    <3> QED
      BY <1>2, <1>4, <3>1 DEF WorkOK
  <2>2. Locked(d) => lock' = t
    BY <1>2, <1>3
  <2> QED
    BY <1>1, <1>2, <1>3, <1>4, <2>1, <2>2, AdvanceShape
<1>9. Counts'
  <2>1. ASSUME NEW k \in Libs
        PROVE  /\ OpenNow(k)' = OpenNow(k)
               /\ SavedNow(k)' = SavedNow(k) + (IF k = l /\ found THEN 1 ELSE 0)
    <3>1. /\ One(Top(t), Opening(k)) = One(d, Opening(k)) /\ One(Top(t), Saved(k)) = 0
          /\ One(d, Saved(k)) = IF k = l /\ found THEN 1 ELSE 0
      BY <1>1, <1>2, <1>3, <1>4, TopFacts, OneIs
    <3>2. \A D : Total(D)' = Total(D) - One(Top(t), D) + One(d, D)
      BY <1>1, <1>2, <1>4, TotalReplaced
    <3>3. \A D : Total(D) \in Nat /\ One(Top(t), D) \in Nat
      BY <1>1, <1>2, TotalOfTop
    <3>4. Users(k)' = Users(k) /\ Users(k) \in Nat
      BY <1>2, UsersType DEF Users
    <3> HIDE DEF found, l
    <3> QED
      BY <3>1, <3>2, <3>3, <3>4 DEF OpenNow, SavedNow
  <2>2. \A k \in Libs : SavedNow(k) \in Nat
    BY <1>1, TotalTypes DEF SavedNow
  <2>3. \A k \in Libs : map'[k].refcount = map[k].refcount + (IF k = l /\ found THEN 1 ELSE 0)
                        /\ map[k].refcount \in Nat
    BY <1>1, <1>6 DEF TypeOK
  <2> HIDE DEF found, l
  <2> QED
    BY <1>1, <1>2, <2>1, <2>2, <2>3 DEF Counts
<1>10. Holder'
  BY <1>1, <1>2, <1>4, <1>5 DEF Holder, Nested, Top, LockedPcs
<1>11. Alive'
  <2>1. \A u \in Threads : At(u, "self_registered") =>
          At(u, "self_registered")' /\ Top(u).lib' = Top(u).lib
    BY <1>2, <1>5 DEF At, Top
  <2>2. /\ \A k \in Libs : map'[k].refcount > 0 => map[k].refcount > 0
        /\ \A k \in Libs : map'[k].refcount # 0 => map[k].refcount # 0
        /\ \A k \in Libs : map'[k].module = map[k].module
    BY <1>6
  <2> QED
    BY <1>1, <1>2, <2>1, <2>2, AliveKept
<1> QED
  BY <1>1, <1>2, <1>7, <1>8, <1>9, <1>10, <1>11 DEF IInv, Loads, Pendings

LEMMA CheckVersionIInv ==
  ASSUME IInv, NEW t \in Threads, CheckVersion(t)
  PROVE  IInv'
<1> DEFINE a == Addon[Top(t).lib]
           pc == IF a.version THEN IF a.context \/ a.legacy THEN "user" ELSE "dlclose"
                 ELSE IF a.callback THEN "user_locked" ELSE "dlclose"
<1>1. TypeOK /\ Counts /\ Works /\ Loads /\ Locks /\ Holder /\ Alive /\ Pendings
  BY DEF IInv
<1>2. /\ frames[t] # <<>> /\ Top(t).pc = "version" /\ GoTo(t, pc)
      /\ lock' = IF a.version THEN NULL ELSE lock
      /\ UNCHANGED <<musl, force, opens, unclosed, map, pending, addons, leaving, ffi, aborted>>
  BY DEF CheckVersion, At, Unlocked
<1>3. PICK d \in DLibs(Pcs) :
        /\ Replaced(frames, frames', t, d)
        /\ d.pc = pc /\ d.lib = Top(t).lib /\ d.entry = Top(t).entry
        /\ d.saved = Top(t).saved
  <2>1. pc \in Pcs
    BY DEF Pcs
  <2> HIDE DEF pc
  <2> QED
    BY <1>1, <1>2, <2>1, GoToFacts
<1>4. /\ frames' \in [Threads -> Seq(DLibs(Pcs))] /\ frames'[t] # <<>> /\ Last(frames'[t]) = d
      /\ \A u \in Threads : u # t => frames'[u] = frames[u]
  BY <1>1, <1>2, <1>3, ReplacedFacts
<1>5. TypeOK'
  BY <1>1, <1>2, <1>4 DEF TypeOK
<1>6. WorkOK(Top(t)) /\ Locked(Top(t)) /\ lock = t /\ Top(t).saved /\ Top(t).entry
  BY <1>1, <1>2, TopWork DEF Locked, LockedPcs, WorkOK
<1>7. Works' /\ Locks'
  <2>1. WorkOK(d)'
    BY <1>2, <1>3, <1>6 DEF WorkOK
  <2>2. Locked(d) => lock' = t
    BY <1>2, <1>3, <1>6 DEF Locked, LockedPcs
  <2> QED
    BY <1>1, <1>2, <1>3, <1>6, <2>1, <2>2, AdvanceShape
<1>8. Counts'
  <2>1. ASSUME NEW l \in Libs
        PROVE  /\ Total(Opening(l))' = Total(Opening(l))
               /\ Total(Saved(l))' = Total(Saved(l))
    <3>1. /\ One(d, Opening(l)) = One(Top(t), Opening(l))
          /\ One(d, Saved(l)) = One(Top(t), Saved(l))
      BY <1>1, <1>2, <1>3, TopFacts, OneIs
    <3>2. \A D : Total(D)' = Total(D) - One(Top(t), D) + One(d, D)
      BY <1>1, <1>2, <1>3, TotalReplaced
    <3>3. \A D : Total(D) \in Nat /\ One(Top(t), D) \in Nat
      BY <1>1, <1>2, TotalOfTop
    <3> QED
      BY <3>1, <3>2, <3>3
  <2> QED
    BY <1>1, <1>2, <2>1, CountsKept
<1>9. Holder'
  <2>1. d.pc \in {"user_locked", "dlclose"} \/ lock' = NULL
    BY <1>2, <1>3
  <2> QED
    BY <1>1, <1>2, <1>4, <2>1, AddonAssumption DEF Holder, Nested, Top, LockedPcs
<1>10. Alive'
  BY <1>1, <1>2, <1>4, AliveKept DEF At, Top
<1> QED
  BY <1>1, <1>2, <1>5, <1>7, <1>8, <1>9, <1>10 DEF IInv, Loads, Pendings

\* A DLib whose initializer has returned is loaded: both returns.
LEMMA LoadedIInv ==
  ASSUME IInv, NEW t \in Threads, frames[t] # <<>>, Top(t).pc \in {"user", "user_locked"},
         Done(t, TRUE), UNCHANGED <<musl, force, opens, unclosed, map, pending, leaving, ffi, aborted>>,
         lock' = NULL, lock \in {t, NULL}, Top(t).pc = "user" => lock = NULL
  PROVE  IInv'
<1>1. TypeOK /\ Counts /\ Works /\ Loads /\ Locks /\ Holder /\ Alive /\ Pendings
  BY DEF IInv
<1> DEFINE d == [Top(t) EXCEPT !.pc = "loaded"]
<1>2. Dropped(frames, frames', t) /\ Appended(addons, addons', t, d)
  BY DEF Done, Pop, Dropped, Appended
<1>3. /\ d \in DLibs({"loaded"}) /\ d.lib = Top(t).lib /\ d.pc = "loaded"
      /\ d.entry = Top(t).entry /\ d.saved = Top(t).saved
  BY <1>1, TopFacts DEF DLibs
<1>4. d.saved <=> d.entry
  BY <1>1, <1>3, TopWork, TopFacts DEF WorkOK
<1> HIDE DEF d
<1>5. /\ frames' \in [Threads -> Seq(DLibs(Pcs))]
      /\ \A u \in Threads : u # t => frames'[u] = frames[u]
  BY <1>1, <1>2, DroppedFacts
<1>6. /\ addons' \in [Threads -> Seq(DLibs({"loaded"}))]
      /\ \A D : Total(D)' = Total(D) - One(Top(t), D) + One(d, D)
  BY <1>1, <1>2, <1>3, TotalMoved
<1>7. TypeOK'
  BY <1>1, <1>5, <1>6 DEF TypeOK
<1>8. Works' /\ Locks'
  BY <1>1, <1>2, EndShape DEF ZeroKept
<1>9. Loads'
  <2>1. /\ addons \in [Threads -> Seq(DLibs({"loaded"}))]
        /\ Len(Append(addons[t], d)) = Len(addons[t]) + 1 /\ Len(addons[t]) \in Nat
        /\ \A i \in 1 .. Len(addons[t]) : Append(addons[t], d)[i] = addons[t][i]
        /\ Append(addons[t], d)[Len(addons[t]) + 1] = d
    BY <1>1, <1>3, AppendProperties, LenProperties DEF TypeOK
  <2>2. addons'[t] = Append(addons[t], d) /\ \A u \in Threads : u # t => addons'[u] = addons[u]
    BY <1>2, <2>1 DEF Appended
  <2>3. \A i \in 1 .. Len(addons[t]) + 1 : i \in 1 .. Len(addons[t]) \/ i = Len(addons[t]) + 1
    BY <2>1
  <2>4. \A i \in 1 .. Len(addons[t]) : addons[t][i].saved <=> addons[t][i].entry
    BY <1>1 DEF Loads
  <2>5. \A i \in 1 .. Len(addons'[t]) : addons'[t][i].saved <=> addons'[t][i].entry
    BY <1>4, <2>1, <2>2, <2>3, <2>4
  <2> QED
    BY <1>1, <2>2, <2>5 DEF Loads
<1>10. Counts'
  <2>1. ASSUME NEW l \in Libs
        PROVE  /\ Total(Opening(l))' = Total(Opening(l))
               /\ Total(Saved(l))' = Total(Saved(l))
    <3>1. Top(t) \in DLibs(Pcs)
      BY <1>1, TopFacts
    <3>2. /\ One(d, Opening(l)) = One(Top(t), Opening(l))
          /\ One(d, Saved(l)) = One(Top(t), Saved(l))
      BY <1>3, <3>1, OneIs
    <3>3. \A D : Total(D) \in Nat /\ One(Top(t), D) \in Nat
      BY <1>1, TotalOfTop
    <3> QED
      BY <1>6, <3>2, <3>3
  <2> QED
    BY <1>1, <2>1, CountsKept
<1>11. Holder'
  BY AddonAssumption DEF Holder
<1>12. Alive'
  BY <1>1, <1>5, AliveKept DEF At, Top
<1> QED
  BY <1>1, <1>7, <1>8, <1>9, <1>10, <1>11, <1>12 DEF IInv, Pendings

LEMMA ReturnLockedIInv ==
  ASSUME IInv, NEW t \in Threads, ReturnLocked(t)
  PROVE  IInv'
<1>1. frames[t] # <<>> /\ Top(t).pc = "user_locked"
  BY DEF ReturnLocked, At
<1>2. lock = t
  BY <1>1, TopWork DEF IInv, Locked, LockedPcs
<1>3. /\ Done(t, TRUE) /\ lock' = NULL
      /\ UNCHANGED <<musl, force, opens, unclosed, map, pending, leaving, ffi, aborted>>
  BY DEF ReturnLocked
<1> QED
  BY <1>1, <1>2, <1>3, LoadedIInv

LEMMA ReturnIInv ==
  ASSUME IInv, NEW t \in Threads, Return(t)
  PROVE  IInv'
<1>1. /\ frames[t] # <<>> /\ Top(t).pc = "user" /\ lock = NULL /\ lock' = NULL
      /\ Done(t, TRUE)
      /\ UNCHANGED <<musl, force, opens, unclosed, map, pending, leaving, ffi, aborted>>
  BY DEF Return, At
<1> QED
  BY <1>1, LoadedIInv

\* dlclose() of a library that is open.
LEMMA CloseHandleFacts ==
  ASSUME TypeOK, NEW l \in Libs, opens[l] >= 1, CloseHandle(l)
  PROVE  /\ opens' \in [Libs -> Nat] /\ opens'[l] = opens[l] - 1
         /\ \A k \in Libs : k # l => opens'[k] = opens[k]
         /\ map' \in [Libs -> Entries]
         /\ \A k \in Libs : map'[k].refcount = map[k].refcount
         /\ \A k \in Libs : opens'[k] = 0 \/ (opens[k] # 0 /\ map'[k].module = map[k].module)
<1>1. opens \in [Libs -> Nat] /\ map \in [Libs -> Entries] /\ map[l] \in Entries
  BY DEF TypeOK, Entries
<1>2. /\ opens' \in [Libs -> Nat] /\ opens'[l] = opens[l] - 1
      /\ \A k \in Libs : k # l => opens'[k] = opens[k]
  BY <1>1 DEF CloseHandle
<1>3. CASE opens[l] = 1 /\ map[l].module = "live"
  <2> DEFINE e == [map[l] EXCEPT !.module = "stale"]
  <2>1. map' = [map EXCEPT ![l] = e]
    BY <1>3 DEF CloseHandle
  <2>2. e \in Entries /\ e.refcount = map[l].refcount
    BY <1>1 DEF Entries
  <2> HIDE DEF e
  <2>3. map' \in [Libs -> Entries] /\ map'[l] = e /\ \A k \in Libs : k # l => map'[k] = map[k]
    BY <2>1, <2>2, EntryChanged
  <2>4. opens'[l] = 0
    BY <1>2, <1>3
  <2> QED
    BY <1>1, <1>2, <2>2, <2>3, <2>4
<1>4. CASE ~(opens[l] = 1 /\ map[l].module = "live")
  <2>1. map' = map
    BY <1>4 DEF CloseHandle
  <2> QED
    BY <1>1, <1>2, <2>1
<1> QED
  BY <1>3, <1>4

LEMMA CloseIInv ==
  ASSUME IInv, NEW t \in Threads, Close(t)
  PROVE  IInv'
<1> DEFINE l == Top(t).lib
           closed == ~(UNCHANGED <<opens, map>> /\ GoTo(t, "left_open"))
           n == IF closed THEN 1 ELSE 0
           pc == IF closed THEN "erase" ELSE "left_open"
<1>1. TypeOK /\ Counts /\ Works /\ Loads /\ Locks /\ Holder /\ Alive /\ Pendings
  BY DEF IInv
<1>2. /\ frames[t] # <<>> /\ Top(t).pc = "dlclose" /\ GoTo(t, pc)
      /\ ~closed => UNCHANGED <<opens, map>>
      /\ closed => CloseHandle(l)
      /\ UNCHANGED <<musl, force, unclosed, lock, pending, addons, leaving, ffi, aborted>>
  BY Zenon DEF Close, At
<1> HIDE DEF closed
<1>3. PICK d \in DLibs(Pcs) :
        /\ Replaced(frames, frames', t, d)
        /\ d.pc = pc /\ d.lib = Top(t).lib /\ d.entry = Top(t).entry
        /\ d.saved = Top(t).saved
  BY <1>1, <1>2, GoToFacts DEF Pcs
<1>4. /\ frames' \in [Threads -> Seq(DLibs(Pcs))] /\ frames'[t] # <<>> /\ Last(frames'[t]) = d
      /\ \A u \in Threads : u # t => frames'[u] = frames[u]
  BY <1>1, <1>2, <1>3, ReplacedFacts
<1>5. l \in Libs /\ \A k \in Libs : OpenNow(k) \in Nat /\ SavedNow(k) \in Nat
  BY <1>1, <1>2, TopFacts, TotalTypes, UsersType DEF OpenNow, SavedNow
<1>6. opens[l] >= 1
  <2>1. One(Top(t), Opening(l)) = 1
    BY <1>1, <1>2, TopFacts, OneIs
  <2>2. Total(Opening(l)) >= 1 /\ Total(Opening(l)) \in Nat /\ Users(l) \in Nat
    BY <1>1, <1>2, <2>1, TotalOfTop, UsersType
  <2>3. opens[l] >= OpenNow(l) /\ opens[l] \in Nat
    BY <1>1, <1>5 DEF Counts, TypeOK
  <2> HIDE DEF l
  <2> QED
    BY <1>5, <2>2, <2>3 DEF OpenNow
<1>7. /\ opens' \in [Libs -> Nat] /\ map' \in [Libs -> Entries]
      /\ \A k \in Libs : opens'[k] = opens[k] - (IF closed /\ k = l THEN 1 ELSE 0)
      /\ \A k \in Libs : map'[k].refcount = map[k].refcount
      /\ \A k \in Libs : opens'[k] = 0 \/ (opens[k] # 0 /\ map'[k].module = map[k].module)
  <2> HIDE DEF l
  <2>1. opens \in [Libs -> Nat] /\ map \in [Libs -> Entries]
    BY <1>1 DEF TypeOK, Entries
  <2>2. CASE ~closed
    BY <1>2, <2>1, <2>2
  <2>3. CASE closed
    BY <1>1, <1>2, <1>5, <1>6, <2>1, <2>3, CloseHandleFacts
  <2> QED
    BY <2>2, <2>3
<1>8. TypeOK'
  BY <1>1, <1>2, <1>4, <1>7 DEF TypeOK, Entries
<1>9. Works' /\ Locks'
  <2>1. WorkOK(Top(t)) /\ (Locked(Top(t)) => lock = t)
    BY <1>1, <1>2, TopWork
  <2>2. WorkOK(d)'
    BY <1>2, <1>3, <1>5, <1>7, <2>1 DEF WorkOK
  <2>3. Locked(d) <=> Locked(Top(t))
    BY <1>2, <1>3 DEF Locked, LockedPcs
  <2>4. ZeroKept
    BY <1>7 DEF ZeroKept
  <2>5. CASE Locked(Top(t))
    BY <1>1, <1>2, <1>3, <2>1, <2>2, <2>5, AdvanceShape
  <2>6. CASE ~Locked(Top(t))
    BY <1>1, <1>2, <1>3, <2>2, <2>3, <2>4, <2>6, CloseShape
  <2> QED
    BY <2>5, <2>6
<1>10. Counts'
  <2>1. ASSUME NEW k \in Libs
        PROVE  /\ OpenNow(k)' = OpenNow(k) - (IF closed /\ k = l THEN 1 ELSE 0)
               /\ SavedNow(k)' = SavedNow(k)
    <3>1. /\ One(Top(t), Opening(k)) = (IF k = l THEN 1 ELSE 0) 
          /\ One(d, Opening(k)) = (IF ~closed /\ k = l THEN 1 ELSE 0)
          /\ One(d, Saved(k)) = One(Top(t), Saved(k))
      BY <1>1, <1>2, <1>3, TopFacts, OneIs
    <3>2. \A D : Total(D)' = Total(D) - One(Top(t), D) + One(d, D)
      BY <1>1, <1>2, <1>3, TotalReplaced
    <3>3. \A D : Total(D) \in Nat /\ One(Top(t), D) \in Nat
      BY <1>1, <1>2, TotalOfTop
    <3>4. Users(k)' = Users(k) /\ Users(k) \in Nat
      BY <1>2, UsersType DEF Users
    <3> HIDE DEF l
    <3> QED
      BY <3>1, <3>2, <3>3, <3>4 DEF OpenNow, SavedNow
  <2>2. \A k \in Libs : opens[k] \in Nat /\ map[k].refcount \in Nat
    BY <1>1 DEF TypeOK
  <2> HIDE DEF l
  <2> QED
    BY <1>1, <1>2, <1>5, <1>7, <2>1, <2>2 DEF Counts
<1>11. Holder'
  BY <1>1, <1>2, <1>3, <1>4 DEF Holder, Nested, Top, LockedPcs
<1>12. Alive'
  BY <1>1, <1>2, <1>4, <1>7, AliveKept DEF At, Top
<1> QED
  BY <1>1, <1>2, <1>8, <1>9, <1>10, <1>11, <1>12 DEF IInv, Loads, Pendings

LEMMA EraseIInv ==
  ASSUME IInv, NEW t \in Threads, Erase(t)
  PROVE  IInv'
<1> DEFINE l == Top(t).lib
           erased == Top(t).pc = "erase"
           n == IF erased /\ Top(t).saved THEN 1 ELSE 0
<1>1. TypeOK /\ Counts /\ Works /\ Loads /\ Locks /\ Holder /\ Alive /\ Pendings
  BY DEF IInv
<1>2. /\ frames[t] # <<>> /\ Top(t).pc \in {"erase", "left_open"} /\ Dropped(frames, frames', t)
      /\ map' = IF Erases(Top(t)) THEN ErasedFromMap(l) ELSE map
      /\ lock' = IF lock = t THEN NULL ELSE lock
      /\ unclosed' = IF erased THEN unclosed ELSE unclosed \cup {l}
      /\ UNCHANGED <<musl, force, opens, pending, addons, leaving, ffi, aborted>>
  BY DEF Erase, At, Done, Pop, Dropped
<1>3. /\ frames' \in [Threads -> Seq(DLibs(Pcs))]
      /\ \A u \in Threads : u # t => frames'[u] = frames[u]
  BY <1>1, <1>2, DroppedFacts
<1>4. l \in Libs /\ map[l] \in Entries /\ \A k \in Libs : SavedNow(k) \in Nat
  BY <1>1, <1>2, TopFacts, TotalTypes DEF SavedNow, TypeOK, Entries
<1>5. /\ Top(t).saved => Top(t).entry
      /\ Top(t).entry /\ ~Top(t).saved => map[l].refcount = 0
  BY <1>1, <1>2, TopWork DEF WorkOK
<1>6. Top(t).saved /\ erased => map[l].refcount >= 1
  <2> SUFFICES ASSUME Top(t).saved, erased PROVE map[l].refcount >= 1
    OBVIOUS
  <2>1. One(Top(t), Saved(l)) = 1
    BY <1>1, <1>2, TopFacts, OneIs
  <2>2. SavedNow(l) >= 1
    BY <1>1, <1>2, <2>1, TotalOfTop DEF SavedNow
  <2>3. map[l].refcount \in Nat /\ SavedNow(l) \in Nat
    BY <1>4 DEF Entries
  <2>4. map[l].refcount >= SavedNow(l)
    <3> HIDE DEF l
    <3> QED
      BY <1>1, <1>4, <2>3 DEF Counts
  <2> HIDE DEF l
  <2> QED
    BY <2>2, <2>3, <2>4
<1>7. /\ map' \in [Libs -> Entries] /\ map'[l].refcount = map[l].refcount - n
      /\ map'[l].refcount # 0 => map'[l].module = map[l].module
      /\ \A k \in Libs : k # l => map'[k] = map[k]
  <2>1. map \in [Libs -> Entries]
    BY <1>1 DEF TypeOK, Entries
  <2>2. CASE n = 0
    <3>1. map' = map
      BY <1>2, <1>5, <2>2 DEF Erases, ErasedFromMap
    <3> QED
      BY <1>4, <2>1, <2>2, <3>1 DEF Entries
  <2>3. CASE n = 1
    <3>1. map' = ErasedFromMap(l) /\ map[l].refcount >= 1
      BY <1>2, <1>5, <1>6, <2>3 DEF Erases
    <3> DEFINE e == IF map[l].refcount > 1 THEN [map[l] EXCEPT !.refcount = @ - 1]
                    ELSE [refcount |-> 0, module |-> "none"]
    <3> HIDE DEF l, n
    <3>2. map' = [map EXCEPT ![l] = e]
      <4>1. map[l].refcount # 0
        BY <3>1
      <4>2. CASE map[l].refcount > 1
        BY <3>1, <4>1, <4>2, Zenon DEF ErasedFromMap
      <4>3. CASE ~(map[l].refcount > 1)
        BY <3>1, <4>1, <4>3, Zenon DEF ErasedFromMap
      <4> QED
        BY <4>2, <4>3
    <3>3. /\ e \in Entries /\ e.refcount = map[l].refcount - 1
          /\ e.refcount # 0 => e.module = map[l].module
      BY <1>4, <3>1 DEF Entries
    <3> HIDE DEF e
    <3>4. map' \in [Libs -> Entries] /\ map'[l] = e /\ \A k \in Libs : k # l => map'[k] = map[k]
      BY <1>1, <1>4, <3>2, <3>3, EntryChanged
    <3> QED
      BY <2>3, <3>3, <3>4
  <2> QED
    BY <2>2, <2>3
<1>8. TypeOK'
  <2>1. lock' \in Threads \cup {NULL}
    BY <1>1, <1>2 DEF TypeOK
  <2>2. unclosed' \subseteq Libs
    BY <1>1, <1>2, <1>4 DEF TypeOK
  <2> HIDE DEF l
  <2> QED
    BY <1>1, <1>2, <1>3, <1>7, <2>1, <2>2 DEF TypeOK, Entries
<1>9. ZeroKept /\ \A k \in Libs : map'[k].refcount > 0 => map[k].refcount > 0
  <2>1. n \in {0, 1} /\ map[l].refcount \in Nat /\ map'[l].refcount \in Nat
    BY <1>4, <1>7 DEF Entries
  <2> HIDE DEF l, n
  <2> QED
    BY <1>4, <1>7, <2>1 DEF ZeroKept
<1>10. Works' /\ Locks'
  <2>1. lock' = lock \/ (lock' = NULL /\ lock = t /\ Top(t).pc \notin {"lock", "user"})
    BY <1>2
  <2> QED
    BY <1>1, <1>2, <1>9, <2>1, EndShape
<1>11. Counts'
  <2>1. ASSUME NEW k \in Libs
        PROVE  /\ OpenNow(k)' = OpenNow(k) - (IF k = l /\ ~erased THEN 1 ELSE 0)
               /\ SavedNow(k)' = SavedNow(k) - (IF k = l /\ Top(t).saved THEN 1 ELSE 0)
    <3>1. /\ One(Top(t), Opening(k)) = IF k = l /\ ~erased THEN 1 ELSE 0
          /\ One(Top(t), Saved(k)) = IF k = l /\ Top(t).saved THEN 1 ELSE 0
      BY <1>1, <1>2, TopFacts, OneIs
    <3>2. \A D : Total(D)' = Total(D) - One(Top(t), D) /\ Total(D) \in Nat
      BY <1>1, <1>2, TotalDropped, TotalTypes
    <3>3. Users(k)' = Users(k) /\ Users(k) \in Nat
      BY <1>2, UsersType DEF Users
    <3>4. OpenNow(k)' = OpenNow(k) - One(Top(t), Opening(k))
      BY <3>1, <3>2, <3>3 DEF OpenNow
    <3>5. SavedNow(k)' = SavedNow(k) - One(Top(t), Saved(k))
      BY <3>2 DEF SavedNow
    <3> HIDE DEF l, erased
    <3> QED
      BY <3>1, <3>4, <3>5
  <2>2. \A k \in Libs : map'[k].refcount =
          map[k].refcount - (IF k = l /\ Top(t).saved /\ erased THEN 1 ELSE 0)
    <3>1. \A k \in Libs : map[k].refcount \in Nat
      BY <1>1 DEF TypeOK
    <3> QED
      BY <1>7, <3>1
  <2>3. \A k \in Libs : map[k].refcount \in Nat
    BY <1>1 DEF TypeOK
  <2>4. \A k \in Libs : OpenNow(k) \in Nat /\ opens[k] \in Nat
    BY <1>1, TotalTypes, UsersType DEF OpenNow, TypeOK
  <2>5. /\ erased => unclosed' = unclosed
        /\ ~erased => unclosed' = unclosed \cup {l}
        /\ opens' = opens
    BY <1>2
  <2> HIDE DEF l, n, erased
  <2> SUFFICES ASSUME NEW k \in Libs
               PROVE  IF k \in unclosed'
                      THEN opens'[k] >= OpenNow(k)' /\ map'[k].refcount >= SavedNow(k)'
                      ELSE opens'[k] = OpenNow(k)' /\ map'[k].refcount = SavedNow(k)'
    BY DEF Counts
  <2>6. SavedNow(k) \in Nat /\ map[k].refcount \in Nat /\ OpenNow(k) \in Nat /\ opens[k] \in Nat
    BY <1>4, <2>3, <2>4
  <2>7. IF k \in unclosed THEN opens[k] >= OpenNow(k) /\ map[k].refcount >= SavedNow(k)
                          ELSE opens[k] = OpenNow(k) /\ map[k].refcount = SavedNow(k)
    BY <1>1 DEF Counts
  <2>8. CASE k = l /\ ~erased
    BY <2>1, <2>2, <2>5, <2>6, <2>7, <2>8
  <2>9. CASE k # l \/ erased
    BY <2>1, <2>2, <2>5, <2>6, <2>7, <2>9
  <2> QED
    BY <2>8, <2>9
<1>12. Holder'
  BY <1>1, <1>2, <1>3, AddonAssumption DEF Holder, Nested, Top
<1>13. Alive'
  <2>1. \A k \in Libs : \/ opens'[k] = 0 \/ map'[k].refcount = 0
                        \/ /\ opens[k] # 0 /\ map[k].refcount # 0
                           /\ map[k].module = "live" => map'[k].module = "live"
    BY <1>2, <1>7, <1>9 DEF ZeroKept
  <2> QED
    BY <1>1, <1>2, <1>3, <1>9, <2>1, AliveKept DEF At, Top
<1> QED
  BY <1>1, <1>2, <1>8, <1>10, <1>11, <1>12, <1>13 DEF IInv, Loads, Pendings

LEMMA LeaveIInv ==
  ASSUME IInv, NEW t \in Threads, Leave(t)
  PROVE  IInv'
<1>1. TypeOK /\ Counts /\ Works /\ Loads /\ Locks /\ Holder /\ Alive /\ Pendings
  BY DEF IInv
<1>2. /\ frames[t] = <<>> /\ leaving' = leaving \cup {t}
      /\ UNCHANGED <<musl, force, opens, unclosed, map, lock, pending, ffi, aborted>>
  BY DEF Leave
<1>3. CASE addons[t] = <<>>
  <2>1. UNCHANGED <<frames, addons>>
    BY <1>3 DEF Leave
  <2>2. TypeOK'
    BY <1>1, <1>2, <2>1 DEF TypeOK
  <2>3. Works' /\ Locks'
    BY <1>1, <1>2, <2>1, RestShape DEF ZeroKept
  <2>4. Counts'
    BY <1>1, <1>2, <2>1, TotalSame, CountsKept
  <2>5. Alive'
    BY <1>1, <1>2, <2>1, AliveKept DEF At, Top
  <2> QED
    BY <1>1, <1>2, <2>1, <2>2, <2>3, <2>4, <2>5 DEF IInv, Loads, Holder, Nested, Top, Pendings
<1>4. CASE addons[t] # <<>>
  <2> DEFINE h == Head(addons[t])
             d == [h EXCEPT !.pc = "dlclose"]
  <2>1. /\ addons \in [Threads -> Seq(DLibs({"loaded"}))] /\ frames \in [Threads -> Seq(DLibs(Pcs))]
        /\ Len(addons[t]) \in Nat \ {0} /\ h = addons[t][1] /\ h \in DLibs({"loaded"})
        /\ Tail(addons[t]) \in Seq(DLibs({"loaded"})) /\ Len(Tail(addons[t])) = Len(addons[t]) - 1
        /\ \A i \in 1 .. Len(addons[t]) - 1 : Tail(addons[t])[i] = addons[t][i + 1]
    <3>1. addons \in [Threads -> Seq(DLibs({"loaded"}))] /\ frames \in [Threads -> Seq(DLibs(Pcs))]
      BY <1>1 DEF TypeOK
    <3>2. addons[t] \in Seq(DLibs({"loaded"}))
      BY <3>1
    <3>3. Len(addons[t]) \in Nat \ {0}
      BY <1>4, <3>2, EmptySeq, LenProperties
    <3> QED
      BY <1>4, <3>1, <3>2, <3>3, HeadTailProperties, ElementOfSeq
  <2>2. h.saved <=> h.entry
    BY <1>1, <2>1 DEF Loads
  <2>3. /\ d \in DLibs(Pcs) /\ d.lib = h.lib /\ d.pc = "dlclose" /\ h.pc = "loaded"
        /\ d.entry = h.entry /\ d.saved = h.saved
    BY <2>1 DEF DLibs, Pcs
  <2>4. Appended(frames, frames', t, d) /\ Beheaded(addons, addons', t)
    <3>1. frames' = [frames EXCEPT ![t] = <<d>>] /\ addons' = [addons EXCEPT ![t] = Tail(@)]
      BY <1>4 DEF Leave
    <3>2. Append(frames[t], d) = <<d>>
      BY <1>2
    <3> HIDE DEF d
    <3> QED
      BY <3>1, <3>2 DEF Appended, Beheaded
  <2> HIDE DEF d, h
  <2>5. /\ frames' \in [Threads -> Seq(DLibs(Pcs))] /\ frames'[t] # <<>> /\ Last(frames'[t]) = d
        /\ \A u \in Threads : u # t => frames'[u] = frames[u]
    BY <1>1, <2>3, <2>4, AppendedFacts
  <2>6. /\ addons' \in [Threads -> Seq(DLibs({"loaded"}))]
        /\ \A D : Total(D)' = Total(D) - One(Head(addons[t]), D) + One(d, D)
    BY <1>1, <1>4, <2>3, <2>4, TotalTaken
  <2>7. TypeOK'
    BY <1>1, <1>2, <2>5, <2>6 DEF TypeOK
  <2>8. Works' /\ Locks'
    <3>1. WorkOK(d) /\ ~Locked(d)
      BY <2>2, <2>3 DEF WorkOK, Locked, LockedPcs
    <3> QED
      BY <1>1, <1>2, <2>3, <2>4, <3>1, BeginShape
  <2>9. Loads'
    <3>1. addons'[t] = Tail(addons[t]) /\ \A u \in Threads : u # t => addons'[u] = addons[u]
      BY <2>1, <2>4 DEF Beheaded
    <3>2. \A i \in 1 .. Len(addons[t]) - 1 : i + 1 \in 1 .. Len(addons[t])
      BY <2>1
    <3>3. \A i \in 1 .. Len(addons[t]) : addons[t][i].saved <=> addons[t][i].entry
      BY <1>1 DEF Loads
    <3>4. \A i \in 1 .. Len(addons'[t]) : addons'[t][i].saved <=> addons'[t][i].entry
      BY <2>1, <3>1, <3>2, <3>3
    <3> QED
      BY <1>1, <3>1, <3>4 DEF Loads
  <2>10. Counts'
    <3>1. ASSUME NEW l \in Libs
          PROVE  /\ Total(Opening(l))' = Total(Opening(l))
                 /\ Total(Saved(l))' = Total(Saved(l))
      <4>1. /\ One(d, Opening(l)) = One(h, Opening(l))
            /\ One(d, Saved(l)) = One(h, Saved(l))
        <5>1. /\ One(d, Opening(l)) = IF h.lib = l THEN 1 ELSE 0
              /\ One(d, Saved(l)) = IF h.lib = l /\ h.saved THEN 1 ELSE 0
          BY <2>3, OneIs
        <5>2. /\ One(h, Opening(l)) = IF h.lib = l THEN 1 ELSE 0
              /\ One(h, Saved(l)) = IF h.lib = l /\ h.saved THEN 1 ELSE 0
          <6>1. h \in DLibs({"loaded"}) /\ h.pc = "loaded"
            BY <2>1, <2>3
          <6> QED
            BY <6>1, OneIs
        <5> QED
          BY <5>1, <5>2
      <4>2. \A D : Total(D) \in Nat /\ One(h, D) \in Nat
        BY <1>1, TotalTypes DEF One
      <4>3. \A D : Total(D)' = Total(D) - One(h, D) + One(d, D)
        BY <2>6 DEF h
      <4> QED
        BY <4>1, <4>2, <4>3
    <3> QED
      BY <1>1, <1>2, <3>1, CountsKept
  <2>11. Holder'
    BY <1>1, <1>2, <2>5 DEF Holder, Nested, Top
  <2>12. Alive'
    BY <1>1, <1>2, <2>5, AliveKept DEF At, Top
  <2> QED
    BY <1>1, <1>2, <2>7, <2>8, <2>9, <2>10, <2>11, <2>12 DEF IInv, Pendings
<1> QED
  BY <1>3, <1>4

LEMMA RestartIInv ==
  ASSUME IInv, NEW t \in Threads, Restart(t)
  PROVE  IInv'
<1>1. TypeOK /\ Counts /\ Works /\ Loads /\ Locks /\ Holder /\ Alive /\ Pendings
  BY DEF IInv
<1>2. /\ leaving' = leaving \ {t} /\ pending' = [pending EXCEPT ![t] = NULL]
      /\ UNCHANGED <<musl, force, opens, unclosed, map, lock, frames, addons, ffi, aborted>>
  BY DEF Restart
<1>3. TypeOK'
  BY <1>1, <1>2 DEF TypeOK
<1>4. Works' /\ Locks'
  BY <1>1, <1>2, RestShape DEF ZeroKept
<1>5. Counts'
  BY <1>1, <1>2, TotalSame, CountsKept
<1>6. Alive'
  BY <1>1, <1>2, AliveKept DEF At, Top
<1> QED
  BY <1>1, <1>2, <1>3, <1>4, <1>5, <1>6 DEF IInv, Loads, Holder, Nested, Top, Pendings, TypeOK

\* The threads that have a library open through the FFI, one more or less.
LEMMA UsersChange ==
  ASSUME TypeOK, TypeOK', NEW t \in Threads, NEW l \in Libs, NEW k \in Libs
  PROVE  /\ l \notin ffi[t] /\ ffi' = [ffi EXCEPT ![t] = @ \cup {l}] =>
              Users(k)' = Users(k) + (IF k = l THEN 1 ELSE 0)
         /\ l \in ffi[t] /\ ffi' = [ffi EXCEPT ![t] = @ \ {l}] =>
              Users(k)' = Users(k) - (IF k = l THEN 1 ELSE 0)
<1> DEFINE U == {u \in Threads : k \in ffi[u]}
           V == {u \in Threads : k \in ffi'[u]}
<1>1. IsFiniteSet(U) /\ IsFiniteSet(V) /\ Cardinality(U) \in Nat
  <2>1. U \in SUBSET Threads /\ V \in SUBSET Threads /\ IsFiniteSet(Threads)
    BY AddonAssumption
  <2> HIDE DEF U, V
  <2> QED
    BY <2>1, FS_Subset, FS_CardinalityType
<1>2. Users(k) = Cardinality(U) /\ Users(k)' = Cardinality(V)
  BY DEF Users
<1>3. ffi \in [Threads -> SUBSET FfiLibs]
  BY DEF TypeOK
<1>4. ASSUME l \notin ffi[t], ffi' = [ffi EXCEPT ![t] = @ \cup {l}]
      PROVE  Cardinality(V) = Cardinality(U) + (IF k = l THEN 1 ELSE 0)
  <2>1. CASE k = l
    <3>1. t \notin U /\ V = U \cup {t}
      BY <1>3, <1>4, <2>1
    <3> HIDE DEF U, V
    <3> QED
      BY <1>1, <2>1, <3>1, FS_AddElement
  <2>2. CASE k # l
    <3>1. \A u \in Threads : k \in ffi'[u] <=> k \in ffi[u]
      BY <1>3, <1>4, <2>2
    <3>2. V = U
      BY <3>1
    <3> HIDE DEF U, V
    <3> QED
      BY <1>1, <2>2, <3>2
  <2> QED
    BY <2>1, <2>2
<1>5. ASSUME l \in ffi[t], ffi' = [ffi EXCEPT ![t] = @ \ {l}]
      PROVE  Cardinality(V) = Cardinality(U) - (IF k = l THEN 1 ELSE 0)
  <2>1. CASE k = l
    <3>1. t \in U /\ V = U \ {t}
      BY <1>3, <1>5, <2>1
    <3> HIDE DEF U, V
    <3> QED
      BY <1>1, <2>1, <3>1, FS_RemoveElement
  <2>2. CASE k # l
    <3>1. \A u \in Threads : k \in ffi'[u] <=> k \in ffi[u]
      BY <1>3, <1>5, <2>2
    <3>2. V = U
      BY <3>1
    <3> HIDE DEF U, V
    <3> QED
      BY <1>1, <2>2, <3>2
  <2> QED
    BY <2>1, <2>2
<1> QED
  BY <1>2, <1>4, <1>5

LEMMA FfiOpenIInv ==
  ASSUME IInv, NEW t \in Threads, NEW l \in Libs, FfiOpen(t, l)
  PROVE  IInv'
<1>1. TypeOK /\ Counts /\ Works /\ Loads /\ Locks /\ Holder /\ Alive /\ Pendings
  BY DEF IInv
<1>2. /\ l \in FfiLibs /\ l \notin ffi[t]
      /\ opens' = [opens EXCEPT ![l] = @ + 1]
      /\ pending' = [pending EXCEPT ![t] = IF Registers(l) THEN l ELSE @]
      /\ ffi' = [ffi EXCEPT ![t] = @ \cup {l}]
      /\ UNCHANGED <<musl, force, unclosed, map, lock, frames, addons, leaving, aborted>>
  BY DEF FfiOpen
<1>3. /\ opens' \in [Libs -> Nat] /\ opens'[l] = opens[l] + 1 /\ opens[l] \in Nat
      /\ \A k \in Libs : k # l => opens'[k] = opens[k]
  BY <1>1, <1>2 DEF TypeOK
<1>4. TypeOK'
  <2>1. ffi' \in [Threads -> SUBSET FfiLibs] /\ pending' \in [Threads -> Libs \cup {NULL}]
    BY <1>1, <1>2 DEF TypeOK
  <2> QED
    BY <1>1, <1>2, <1>3, <2>1 DEF TypeOK
<1>5. Works' /\ Locks'
  BY <1>1, <1>2, RestShape DEF ZeroKept
<1>6. Counts'
  <2>1. ASSUME NEW k \in Libs
        PROVE  OpenNow(k)' = OpenNow(k) + (IF k = l THEN 1 ELSE 0) /\ SavedNow(k)' = SavedNow(k)
    <3>1. \A D : Total(D)' = Total(D) /\ Total(D) \in Nat
      BY <1>1, <1>2, TotalSame, TotalTypes
    <3>2. Users(k)' = Users(k) + (IF k = l THEN 1 ELSE 0) /\ Users(k) \in Nat
      BY <1>1, <1>2, <1>4, UsersChange, UsersType
    <3> QED
      BY <3>1, <3>2 DEF OpenNow, SavedNow
  <2>2. \A k \in Libs : OpenNow(k) \in Nat /\ opens[k] \in Nat
    BY <1>1, TotalTypes, UsersType DEF OpenNow, TypeOK
  <2> QED
    BY <1>1, <1>2, <1>3, <2>1, <2>2 DEF Counts
<1>7. Alive'
  <2>1. \A u \in Threads : At(u, "self_registered") =>
          At(u, "self_registered")' /\ Top(u).lib' = Top(u).lib
    BY <1>2 DEF At, Top
  <2>2. Quiet => map[l].refcount = 0
    <3>1. map[l].refcount \in Nat
      BY <1>1 DEF TypeOK
    <3>2. Quiet => ~(map[l].refcount > 0)
      BY <1>1, <1>2 DEF Quiet, Alive
    <3> QED
      BY <3>1, <3>2
  <2> QED
    BY <1>1, <1>2, <1>3, <2>1, <2>2 DEF Alive
<1>8. Pendings'
  <2>1. Quiet => ~Registers(l)
    BY <1>2 DEF Quiet, Registers
  <2> QED
    BY <1>1, <1>2, <2>1 DEF Pendings, TypeOK
<1> QED
  BY <1>1, <1>2, <1>4, <1>5, <1>6, <1>7, <1>8 DEF IInv, Loads, Holder, Nested, Top

LEMMA FfiCloseIInv ==
  ASSUME IInv, NEW t \in Threads, NEW l \in Libs, FfiClose(t, l)
  PROVE  IInv'
<1> DEFINE left == UNCHANGED <<opens, map>> /\ unclosed' = unclosed \cup {l}
<1>1. TypeOK /\ Counts /\ Works /\ Loads /\ Locks /\ Holder /\ Alive /\ Pendings
  BY DEF IInv
<1>2. /\ l \in ffi[t] /\ ffi' = [ffi EXCEPT ![t] = @ \ {l}]
      /\ left => UNCHANGED <<opens, map>> /\ unclosed' = unclosed \cup {l}
      /\ ~left => CloseHandle(l) /\ unclosed' = unclosed
      /\ UNCHANGED <<musl, force, lock, pending, frames, addons, leaving, aborted>>
  BY Zenon DEF FfiClose
<1> HIDE DEF left
<1>3. \A k \in Libs : /\ OpenNow(k) \in Nat /\ opens[k] \in Nat
                      /\ Users(k) \in Nat /\ Total(Opening(k)) \in Nat
  BY <1>1, TotalTypes, UsersType DEF OpenNow, TypeOK
<1>4. opens[l] >= 1
  <2>1. IsFiniteSet({u \in Threads : l \in ffi[u]}) /\ t \in {u \in Threads : l \in ffi[u]}
    <3>1. {u \in Threads : l \in ffi[u]} \in SUBSET Threads /\ IsFiniteSet(Threads)
      BY AddonAssumption
    <3> QED
      BY <1>2, <3>1, FS_Subset
  <2>2. Users(l) # 0
    <3> DEFINE U == {u \in Threads : l \in ffi[u]}
    <3> HIDE DEF U
    <3>1. IsFiniteSet(U) /\ t \in U
      BY <2>1 DEF U
    <3>2. Cardinality(U) # 0
      BY <3>1, FS_EmptySet
    <3> QED
      BY <3>2 DEF U, Users
  <2>3. opens[l] >= OpenNow(l)
    BY <1>1, <1>3 DEF Counts
  <2> QED
    BY <1>3, <2>2, <2>3 DEF OpenNow
<1>5. /\ opens' \in [Libs -> Nat] /\ map' \in [Libs -> Entries]
      /\ \A k \in Libs : opens'[k] = opens[k] - (IF ~left /\ k = l THEN 1 ELSE 0)
      /\ \A k \in Libs : map'[k].refcount = map[k].refcount
      /\ \A k \in Libs : opens'[k] = 0 \/ (opens[k] # 0 /\ map'[k].module = map[k].module)
  <2>1. opens \in [Libs -> Nat] /\ map \in [Libs -> Entries]
    BY <1>1 DEF TypeOK, Entries
  <2>2. CASE left
    BY <1>2, <2>1, <2>2
  <2>3. CASE ~left
    BY <1>1, <1>2, <1>4, <2>1, <2>3, CloseHandleFacts
  <2> QED
    BY <2>2, <2>3
<1>6. TypeOK'
  <2>1. ffi' \in [Threads -> SUBSET FfiLibs]
    BY <1>1, <1>2 DEF TypeOK
  <2> QED
    BY <1>1, <1>2, <1>5, <2>1 DEF TypeOK, Entries
<1>7. Works' /\ Locks'
  BY <1>1, <1>2, <1>5, RestShape DEF ZeroKept
<1>8. Counts'
  <2>1. ASSUME NEW k \in Libs
        PROVE  OpenNow(k)' = OpenNow(k) - (IF k = l THEN 1 ELSE 0) /\ SavedNow(k)' = SavedNow(k)
    <3>1. \A D : Total(D)' = Total(D)
      BY <1>2, TotalSame
    <3>2. Users(k)' = Users(k) - (IF k = l THEN 1 ELSE 0)
      BY <1>1, <1>2, <1>6, UsersChange
    <3> QED
      BY <1>3, <3>1, <3>2 DEF OpenNow, SavedNow
  <2> SUFFICES ASSUME NEW k \in Libs
               PROVE  IF k \in unclosed'
                      THEN opens'[k] >= OpenNow(k)' /\ map'[k].refcount >= SavedNow(k)'
                      ELSE opens'[k] = OpenNow(k)' /\ map'[k].refcount = SavedNow(k)'
    BY DEF Counts
  <2>2. OpenNow(k) \in Nat /\ opens[k] \in Nat /\ unclosed \subseteq unclosed'
    BY <1>2, <1>3
  <2>3. IF k \in unclosed THEN opens[k] >= OpenNow(k) /\ map[k].refcount >= SavedNow(k)
                          ELSE opens[k] = OpenNow(k) /\ map[k].refcount = SavedNow(k)
    BY <1>1 DEF Counts
  <2>4. CASE k # l \/ ~left
    <3>1. k \in unclosed' <=> k \in unclosed
      BY <1>2, <2>4
    <3>2. /\ opens'[k] = opens[k] - (IF ~left /\ k = l THEN 1 ELSE 0)
          /\ OpenNow(k)' = OpenNow(k) - (IF k = l THEN 1 ELSE 0)
      BY <1>5, <2>1
    <3>3. CASE k = l /\ ~left
      BY <1>5, <2>1, <2>2, <2>3, <3>1, <3>2, <3>3
    <3>4. CASE k # l
      BY <1>5, <2>1, <2>2, <2>3, <3>1, <3>2, <3>4
    <3> QED
      BY <2>4, <3>3, <3>4
  <2>5. CASE k = l /\ left
    <3>1. k \in unclosed'
      BY <1>2, <2>5
    <3>2. /\ opens'[k] = opens[k] /\ map'[k].refcount = map[k].refcount
          /\ OpenNow(k)' = OpenNow(k) - 1 /\ SavedNow(k)' = SavedNow(k)
      BY <1>2, <2>1, <2>5
    <3>3. opens[k] >= OpenNow(k) /\ map[k].refcount >= SavedNow(k)
      <4>1. map[k].refcount \in Nat
        BY <1>1 DEF TypeOK
      <4> QED
        BY <2>2, <2>3, <4>1, TotalTypes, <1>1 DEF SavedNow
    <3> QED
      BY <2>2, <3>1, <3>2, <3>3
  <2> QED
    BY <2>4, <2>5
<1>9. Alive'
  BY <1>1, <1>2, <1>5, AliveKept DEF At, Top
<1> QED
  BY <1>1, <1>2, <1>6, <1>7, <1>8, <1>9 DEF IInv, Loads, Holder, Nested, Top, Pendings

LEMMA InitIInv ==
  ASSUME Init
  PROVE  IInv
<1>1. TypeOK
  <2>1. \A l \in Libs : [refcount |-> 0, module |-> "none"] \in Entries
    BY DEF Entries
  <2>2. map \in [Libs -> Entries] /\ opens \in [Libs -> Nat]
    BY <2>1 DEF Init
  <2>3. /\ frames \in [Threads -> Seq(DLibs(Pcs))]
        /\ addons \in [Threads -> Seq(DLibs({"loaded"}))]
    BY EmptySeq DEF Init
  <2> QED
    BY <2>2, <2>3 DEF Init, TypeOK, Entries
<1>2. \A t \in Threads : frames[t] = <<>> /\ addons[t] = <<>>
  BY DEF Init
<1>3. \A D : Total(D) = 0
  <2> SUFFICES ASSUME NEW D PROVE Total(D) = 0
    OBVIOUS
  <2>1. \A t \in Threads : DOMAIN frames[t] = {} /\ DOMAIN addons[t] = {}
    BY <1>2
  <2>2. Places(frames, D) = {} /\ Places(addons, D) = {}
    BY <2>1 DEF Places
  <2>3. Cardinality({}) = 0
    BY FS_EmptySet
  <2> QED
    BY <2>2, <2>3 DEF Total, Number
<1>4. \A l \in Libs : Users(l) = 0
  <2> SUFFICES ASSUME NEW l \in Libs PROVE Users(l) = 0
    OBVIOUS
  <2>1. {t \in Threads : l \in ffi[t]} = {}
    BY DEF Init
  <2>2. Cardinality({}) = 0
    BY FS_EmptySet
  <2> QED
    BY <2>1, <2>2 DEF Users
<1>5. Counts
  BY <1>3, <1>4 DEF Init, Counts, OpenNow, SavedNow
<1>6. \A t \in Threads : Len(frames[t]) = 0 /\ Len(addons[t]) = 0
  BY <1>2
<1>7. Works /\ Loads /\ Locks
  BY <1>6 DEF Works, Loads, Locks
<1>8. Holder /\ Alive /\ Pendings
  BY AddonAssumption DEF Init, Holder, Alive, Pendings
<1> QED
  BY <1>1, <1>5, <1>7, <1>8 DEF IInv

LEMMA NextIInv ==
  ASSUME IInv, Next
  PROVE  IInv'
<1>1. PICK t \in Threads :
        \/ \E l \in Libs : DLOpen(t, l) \/ FfiOpen(t, l) \/ FfiClose(t, l)
        \/ Lock(t) \/ Open(t) \/ OpenFails(t) \/ SaveModule(t) \/ FindModule(t)
        \/ CheckVersion(t) \/ ReturnLocked(t) \/ Return(t)
        \/ Close(t) \/ Erase(t) \/ Leave(t) \/ Restart(t)
  BY DEF Next
<1>2. CASE \E l \in Libs : DLOpen(t, l)
  BY <1>2, DLOpenIInv
<1>3. CASE \E l \in Libs : FfiOpen(t, l)
  BY <1>3, FfiOpenIInv
<1>4. CASE \E l \in Libs : FfiClose(t, l)
  BY <1>4, FfiCloseIInv
<1>5. CASE Lock(t)
  BY <1>5, LockIInv
<1>6. CASE Open(t)
  BY <1>6, OpenIInv
<1>7. CASE OpenFails(t)
  BY <1>7, OpenFailsIInv
<1>8. CASE SaveModule(t)
  BY <1>8, SaveModuleIInv
<1>9. CASE FindModule(t)
  BY <1>9, FindModuleIInv
<1>10. CASE CheckVersion(t)
  BY <1>10, CheckVersionIInv
<1>11. CASE ReturnLocked(t)
  BY <1>11, ReturnLockedIInv
<1>12. CASE Return(t)
  BY <1>12, ReturnIInv
<1>13. CASE Close(t)
  BY <1>13, CloseIInv
<1>14. CASE Erase(t)
  BY <1>14, EraseIInv
<1>15. CASE Leave(t)
  BY <1>15, LeaveIInv
<1>16. CASE Restart(t)
  BY <1>16, RestartIInv
<1> QED
  BY <1>1, <1>2, <1>3, <1>4, <1>5, <1>6, <1>7, <1>8, <1>9, <1>10, <1>11, <1>12,
     <1>13, <1>14, <1>15, <1>16

LEMMA StutterIInv ==
  ASSUME IInv, UNCHANGED vars
  PROVE  IInv'
<1>1. TypeOK /\ Counts /\ Works /\ Loads /\ Locks /\ Holder /\ Alive /\ Pendings
  BY DEF IInv
<1>2. UNCHANGED <<musl, force, opens, unclosed, map, lock, pending, frames, addons, leaving, ffi, aborted>>
  BY DEF vars
<1>3. TypeOK'
  BY <1>1, <1>2 DEF TypeOK
<1>4. Works' /\ Locks'
  BY <1>1, <1>2, RestShape DEF ZeroKept
<1>5. Counts'
  BY <1>1, <1>2, TotalSame, CountsKept
<1>6. Alive'
  BY <1>1, <1>2, AliveKept DEF At, Top
<1> QED
  BY <1>1, <1>2, <1>3, <1>4, <1>5, <1>6 DEF IInv, Loads, Holder, Nested, Top, Pendings

-----------------------------------------------------------------------------
(* The theorems.                                                           *)

\* The inductive invariant: the types, the counts, what the mutex protects
\* and when a module is usable, in every state that node_binding.cc reaches.
THEOREM Invariance == Spec => []IInv
<1>1. Init => IInv
  BY InitIInv
<1>2. IInv /\ [Next]_vars => IInv'
  BY NextIInv, StutterIInv
<1> QED
  BY <1>1, <1>2, PTL DEF Spec

\* For any number of threads, libraries and loads inside loads: every library
\* is open as often as a DLib or the FFI has it open, and the handle map
\* counts exactly the DLibs that saved or found a module; never fewer, where
\* one was left open.
THEOREM CountsAlwaysExact == Spec => []CountsExact
<1>1. IInv => CountsExact
  <2> SUFFICES ASSUME IInv PROVE CountsExact
    OBVIOUS
  <2>1. TypeOK /\ Counts
    BY DEF IInv
  <2>2. \A D : Count(D) = Total(D)
    BY DEF Count, Total, Number
  <2> QED
    BY <2>1, <2>2 DEF CountsExact, Counts, OpenNow, SavedNow, Users
<1> QED
  BY <1>1, Invariance, PTL

\* No load uses a module that another thread's environment has unloaded,
\* when programs open no self-registering library with the FFI: the module
\* that SaveModule puts there, or FindModule counts, is in a library that is
\* still open when DLOpen checks its version.
THEOREM ModulesAlwaysAlive ==
  ASSUME Quiet
  PROVE  Spec => []ModulesAlive
<1>1. IInv => ModulesAlive
  <2> SUFFICES ASSUME IInv, NEW t \in Threads, At(t, "version")
               PROVE  map[Top(t).lib].module = "live" /\ opens[Top(t).lib] > 0
    BY DEF ModulesAlive
  <2>1. TypeOK /\ Counts /\ Works /\ Locks /\ Alive
    BY DEF IInv
  <2>2. frames[t] # <<>> /\ Top(t).pc = "version"
    BY DEF At
  <2> DEFINE l == Top(t).lib
  <2>3. /\ l \in Libs /\ Top(t).saved /\ ~(force /\ ~Addon[l].context) /\ lock = t
        /\ opens[l] \in Nat /\ map[l].refcount \in Nat
    BY <2>1, <2>2, TopFacts, TopWork DEF WorkOK, Locked, LockedPcs, TypeOK
  <2>4. One(Top(t), Opening(l)) = 1 /\ One(Top(t), Saved(l)) = 1
    BY <2>1, <2>2, <2>3, TopFacts, OneIs
  <2>5. Total(Opening(l)) >= 1 /\ Total(Saved(l)) >= 1
    BY <2>1, <2>2, <2>4, TotalOfTop
  <2>6. opens[l] >= 1 /\ map[l].refcount >= 1
    <3>1. /\ Total(Opening(l)) \in Nat /\ Total(Saved(l)) \in Nat /\ Users(l) \in Nat
          /\ opens[l] >= OpenNow(l) /\ map[l].refcount >= SavedNow(l)
      BY <2>1, <2>3, TotalTypes, UsersType DEF Counts, OpenNow, SavedNow
    <3> HIDE DEF l
    <3> QED
      BY <2>3, <2>5, <3>1 DEF OpenNow, SavedNow
  <2>7. ASSUME NEW u \in Threads, At(u, "self_registered") PROVE FALSE
    <3>1. frames[u] # <<>> /\ Top(u).pc = "self_registered" /\ Locked(Top(u))
      BY <2>7 DEF At, Locked, LockedPcs
    <3>2. lock = u
      BY <2>1, <3>1, TopWork
    <3> QED
      BY <2>2, <2>3, <3>1, <3>2
  <2>8. map[l].module = "live"
    <3> HIDE DEF l
    <3> QED
      BY <2>1, <2>3, <2>6, <2>7 DEF Alive
  <2> QED
    BY <2>3, <2>6, <2>8
<1> QED
  BY <1>1, Invariance, PTL

\* A thread waits for dlib_load_mutex while it holds it exactly if one of its
\* initializers that were found by their symbol asks for another addon: those
\* run under the lock, and no other code that may call process.dlopen does.
THEOREM SelfWaitsOnlyBySymbol == Spec => []SelfWaitsBySymbol
<1>1. IInv => SelfWaitsBySymbol
  <2> SUFFICES ASSUME IInv, NEW t \in Threads, At(t, "lock")
               PROVE  lock = t <=> Nested(t)
    BY DEF SelfWaitsBySymbol, Nested
  <2>1. TypeOK /\ Locks /\ Holder /\ frames[t] # <<>> /\ Top(t).pc = "lock"
    BY DEF IInv, At
  <2>2. lock = t => Nested(t)
    BY <2>1 DEF Holder, LockedPcs
  <2>3. ASSUME Nested(t) PROVE lock = t
    <3>1. Len(frames[t]) \in Nat \ {0}
      BY <2>1, TopFacts
    <3>2. Len(frames[t]) - 1 \in 1 .. Len(frames[t]) /\ Locked(frames[t][Len(frames[t]) - 1])
      BY <2>3, <3>1 DEF Nested, Locked, LockedPcs
    <3> QED
      BY <2>1, <3>2 DEF Locks
  <2> QED
    BY <2>2, <2>3
<1> QED
  BY <1>1, Invariance, PTL
=============================================================================
