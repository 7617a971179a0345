-------------------------- MODULE TrampTable_proof --------------------------
(***************************************************************************)
(* For any numbers of closures, tables and trampolines: what TLC checks of *)
(* TrampTable on five closures and two tables of two, where raw closures   *)
(* are prepared by raw_api.c.                                              *)
(*                                                                         *)
(* The proof has two halves.  The lists: PushLink and Unlink keep a        *)
(* doubly-linked list, and so tramp_add, tramp_del, tramp_table_alloc and  *)
(* tramp_table_free keep a pool exact for the trampolines that are free.   *)
(* The closures: the invariant says which of them hold trampolines, of     *)
(* which tables, and what those enter.                                     *)
(***************************************************************************)
EXTENDS TrampTable, FiniteSetTheorems, TLAPS

\* s puts the n elements of S in the order of list l.
Orders(s, l, S, n, null) ==
  /\ s \in [1 .. n -> S]
  /\ \A x \in S : \E i \in 1 .. n : s[i] = x
  /\ \A i, j \in 1 .. n : s[i] = s[j] => i = j
  /\ l.head = IF n = 0 THEN null ELSE s[1]
  /\ \A i \in 1 .. n : /\ l.next[s[i]] = IF i = n THEN null ELSE s[i + 1]
                       /\ l.prev[s[i]] = IF i = 1 THEN null ELSE s[i - 1]

\* The pool p is exact when F gives the free trampolines of each table.
Exact(p, F) ==
  /\ p \in Pool
  /\ \A t \in p.mapped : IsList(p.free[t], F[t], p.nfree[t], 0)
  /\ IsList(p.tables, {t \in p.mapped : F[t] # {}}, p.ntables, NULL)

Free == [t \in Tables |-> FreeOf(t)]

\* TypeOK without the pool.
Types ==
  /\ platform \in [arch : BOOLEAN, pageFits : BOOLEAN]
  /\ status \in {"uninitialized", "passed", "failed"}
  /\ parm \in [Slots -> Closures \cup {NULL}]
  /\ pc \in [Closures -> {"free", "ffi_tramp_alloc", "ffi_tramp_get_addr",
                          "ffi_tramp_set_parms", "ready", "dlfree"}]
  /\ ftramp \in [Closures -> Slots \cup {NULL}]
  /\ code \in [Closures -> Slots \cup Closures \cup {NULL}]

\* Until ffi_tramp_init has decided there is no closure, and without
\* trampolines there is no table and no closure that waits for one.
Decided ==
  /\ Undecided => \A c \in Closures : pc[c] = "free"
  /\ status # "passed" =>
       /\ pool = EmptyPool
       /\ \A c \in Closures : pc[c] \in {"free", "ready", "dlfree"}

\* A closure holds a trampoline of a mapped table, which no other closure
\* holds; what has been prepared stays as it is.
Holding ==
  /\ \A c \in Closures : Holds(c) =>
       /\ ftramp[c] \in Slots /\ ftramp[c][1] \in pool.mapped
       /\ pc[c] # "ffi_tramp_get_addr" => code[c] = ftramp[c]
       /\ pc[c] = "ready" => parm[ftramp[c]] = c
  /\ \A c, d \in Closures : Holds(c) /\ Holds(d) /\ ftramp[c] = ftramp[d] => c = d

IInv == Types /\ Exact(pool, Free) /\ Decided /\ Holding /\ OneIdleTable

-----------------------------------------------------------------------------
(* Doubly-linked lists.                                                    *)

\* A list that is not empty has its head in it; two elements make it longer
\* than one.
LEMMA ListFacts ==
  ASSUME NEW l, NEW S, NEW n \in Nat, NEW null, IsList(l, S, n, null)
  PROVE  /\ n = 0 <=> S = {}
         /\ n # 0 => l.head \in S
         /\ \A x, y \in S : x # y => n > 1
<1>1. PICK s : Orders(s, l, S, n, null)
  BY DEF IsList, Orders
<1> QED
  BY <1>1 DEF Orders

\* A list is empty when its counter is zero.
LEMMA ListEmpty ==
  ASSUME NEW l, NEW S, NEW n \in Nat, NEW null, IsList(l, S, n, null)
  PROVE  n = 0 <=> S = {}
BY ListFacts

\* A list of all the trampolines of a table is as long as the table.
LEMMA ListLength ==
  ASSUME NEW l, NEW S \in SUBSET Ks, NEW n \in Nat, NEW null, IsList(l, S, n, null)
  PROVE  n <= NTramp /\ (n = NTramp <=> S = Ks)
<1>1. PICK s : Orders(s, l, S, n, null)
  BY DEF IsList, Orders
<1>2. \A k \in Nat : IsFiniteSet(1 .. k) /\ Cardinality(1 .. k) = k
  <2> SUFFICES ASSUME NEW k \in Nat PROVE IsFiniteSet(1 .. k) /\ Cardinality(1 .. k) = k
    OBVIOUS
  <2>1. IsFiniteSet(1 .. k) /\ Cardinality(1 .. k) = IF 1 > k THEN 0 ELSE k - 1 + 1
    BY FS_Interval
  <2> QED
    BY <2>1
<1>3. IsFiniteSet(Ks) /\ Cardinality(Ks) = NTramp
  BY <1>2, TrampAssumption DEF Ks
<1>4. s \in Bijection(1 .. n, S)
  BY <1>1 DEF Orders, Bijection, Injection, Surjection, IsInjective
<1>5. IsFiniteSet(S) /\ Cardinality(S) = n
  BY <1>2, <1>4, FS_Bijection DEF ExistsBijection
<1>6. Cardinality(S) <= Cardinality(Ks) /\ (Cardinality(S) = Cardinality(Ks) => S = Ks)
  BY <1>3, FS_Subset
<1> QED
  BY <1>3, <1>5, <1>6

\* PushLink keeps a list.
LEMMA PushLinkKeeps ==
  ASSUME NEW T, NEW null, null \notin T, NEW l \in Links(T, null),
         NEW S \in SUBSET T, NEW n \in Nat, IsList(l, S, n, null), NEW x \in T \ S
  PROVE  /\ PushLink(l, x, null) \in Links(T, null)
         /\ IsList(PushLink(l, x, null), S \cup {x}, n + 1, null)
<1> DEFINE m == PushLink(l, x, null)
<1>1. PICK s : Orders(s, l, S, n, null)
  BY DEF IsList, Orders
<1>2. /\ m.head = x
      /\ DOMAIN l.prev = T /\ DOMAIN l.next = T
      /\ \A y \in T : m.prev[y] = IF y = x THEN null ELSE IF y = l.head THEN x ELSE l.prev[y]
      /\ \A y \in T : m.next[y] = IF y = x THEN l.head ELSE l.next[y]
  BY DEF PushLink, Links
<1>3. m \in Links(T, null)
  BY DEF PushLink, Links
<1> HIDE DEF m
<1> DEFINE z == [i \in 1 .. n + 1 |-> IF i = 1 THEN x ELSE s[i - 1]]
<1>4. /\ z[1] = x
      /\ \A i \in 2 .. n + 1 : z[i] = s[i - 1] /\ i - 1 \in 1 .. n /\ s[i - 1] \in S
      /\ \A i \in 1 .. n : z[i + 1] = s[i]
  BY <1>1 DEF Orders
<1>5. z \in [1 .. n + 1 -> S \cup {x}]
  BY <1>1 DEF Orders
<1> HIDE DEF z
<1>6. \A y \in S \cup {x} : \E i \in 1 .. n + 1 : z[i] = y
  <2>1. \A y \in S : \E i \in 1 .. n : z[i + 1] = y /\ i + 1 \in 1 .. n + 1
    BY <1>1, <1>4 DEF Orders
  <2> QED
    BY <1>4, <2>1
<1>7. \A i, j \in 1 .. n + 1 : z[i] = z[j] => i = j
  <2> SUFFICES ASSUME NEW i \in 1 .. n + 1, NEW j \in 1 .. n + 1, z[i] = z[j] PROVE i = j
    OBVIOUS
  <2>1. CASE i # 1 /\ j # 1
    <3>1. i \in 2 .. n + 1 /\ j \in 2 .. n + 1
      BY <2>1
    <3>2. i - 1 = j - 1
      BY <1>1, <1>4, <3>1 DEF Orders
    <3> QED
      BY <3>2
  <2>2. CASE i = 1 /\ j # 1
    <3>1. j \in 2 .. n + 1
      BY <2>2
    <3> QED
      BY <1>4, <2>2, <3>1
  <2>3. CASE i # 1 /\ j = 1
    <3>1. i \in 2 .. n + 1
      BY <2>3
    <3> QED
      BY <1>4, <2>3, <3>1
  <2> QED
    BY <2>1, <2>2, <2>3
<1>8. ASSUME NEW i \in 1 .. n + 1
      PROVE  /\ m.next[z[i]] = IF i = n + 1 THEN null ELSE z[i + 1]
             /\ m.prev[z[i]] = IF i = 1 THEN null ELSE z[i - 1]
  <2>1. CASE i = 1
    <3>1. m.next[x] = l.head /\ m.prev[x] = null
      BY <1>2
    <3>2. l.head = IF n = 0 THEN null ELSE z[2]
      BY <1>1, <1>4 DEF Orders
    <3> QED
      BY <1>4, <2>1, <3>1, <3>2
  <2>2. CASE i # 1
    <3>1. i \in 2 .. n + 1 /\ i - 1 \in 1 .. n
      BY <2>2
    <3>2. z[i] = s[i - 1] /\ z[i] \in S /\ z[i] \in T /\ z[i] # x
      BY <1>4, <3>1
    <3>3. m.next[z[i]] = l.next[s[i - 1]]
      BY <1>2, <3>2
    <3>4. l.next[s[i - 1]] = IF i - 1 = n THEN null ELSE s[i - 1 + 1]
      BY <1>1, <3>1 DEF Orders
    <3>5. i # n + 1 => z[i + 1] = s[i]
      BY <1>4, <3>1
    <3>6. CASE i = 2
      BY <1>1, <1>2, <1>4, <3>1, <3>2, <3>3, <3>4, <3>5, <3>6 DEF Orders
    <3>7. CASE i # 2
      <4>1. 1 \in 1 .. n /\ i - 1 # 1 /\ i - 1 \in 2 .. n + 1
        BY <3>1, <3>7
      <4>2. l.head = s[1] /\ s[i - 1] # s[1]
        BY <1>1, <3>1, <4>1 DEF Orders
      <4>3. m.prev[z[i]] = l.prev[s[i - 1]]
        BY <1>2, <3>2, <4>2
      <4>4. l.prev[s[i - 1]] = s[i - 1 - 1] /\ z[i - 1] = s[i - 1 - 1]
        BY <1>1, <1>4, <3>1, <4>1 DEF Orders
      <4> QED
        BY <2>2, <3>1, <3>3, <3>4, <3>5, <4>3, <4>4
    <3> QED
      BY <3>6, <3>7
  <2> QED
    BY <2>1, <2>2
<1>9. m.head = IF n + 1 = 0 THEN null ELSE z[1]
  BY <1>2, <1>4
<1>10. IsList(m, S \cup {x}, n + 1, null)
  BY <1>5, <1>6, <1>7, <1>8, <1>9 DEF IsList
<1> QED
  BY <1>3, <1>10 DEF m

\* Unlink keeps a list.
LEMMA UnlinkKeeps ==
  ASSUME NEW T, NEW null, null \notin T, NEW l \in Links(T, null),
         NEW S \in SUBSET T, NEW n \in Nat, IsList(l, S, n, null), NEW x \in S
  PROVE  /\ Unlink(l, x, null) \in Links(T, null)
         /\ n - 1 \in Nat /\ IsList(Unlink(l, x, null), S \ {x}, n - 1, null)
<1> DEFINE m == Unlink(l, x, null)
<1>1. PICK s : Orders(s, l, S, n, null)
  BY DEF IsList, Orders
<1>2. PICK k \in 1 .. n : s[k] = x
  BY <1>1 DEF Orders
<1>3. /\ m.head = IF l.head = x THEN l.next[x] ELSE l.head
      /\ \A y \in T : m.prev[y] = IF y = l.next[x] THEN l.prev[x] ELSE l.prev[y]
      /\ \A y \in T : m.next[y] = IF y = l.prev[x] THEN l.next[x] ELSE l.next[y]
  BY DEF Unlink, Links
<1>4. m \in Links(T, null)
  BY DEF Unlink, Links
<1> HIDE DEF m
<1>0. \A i \in 1 .. n : /\ l.next[s[i]] = IF i = n THEN null ELSE s[i + 1]
                        /\ l.prev[s[i]] = IF i = 1 THEN null ELSE s[i - 1]
  BY <1>1 DEF Orders
<1>5. /\ n - 1 \in Nat
      /\ l.next[x] = IF k = n THEN null ELSE s[k + 1]
      /\ l.prev[x] = IF k = 1 THEN null ELSE s[k - 1]
  BY <1>2, <1>0
<1> DEFINE z == [i \in 1 .. n - 1 |-> IF i < k THEN s[i] ELSE s[i + 1]]
<1>6. /\ \A i \in 1 .. n - 1 : i < k => z[i] = s[i] /\ i \in 1 .. n
      /\ \A i \in 1 .. n - 1 : ~(i < k) => z[i] = s[i + 1] /\ i + 1 \in 1 .. n
  OBVIOUS
<1>7. \A i \in 1 .. n : s[i] \in S /\ s[i] # null /\ (i # k => s[i] # x)
  BY <1>1, <1>2 DEF Orders
<1>8. z \in [1 .. n - 1 -> S \ {x}]
  BY <1>7
<1> HIDE DEF z
<1>9. ASSUME NEW y \in S \ {x} PROVE \E i \in 1 .. n - 1 : z[i] = y
  <2>1. PICK j \in 1 .. n : s[j] = y
    BY <1>1 DEF Orders
  <2>2. CASE j < k
    <3>1. j \in 1 .. n - 1 /\ z[j] = y
      BY <1>6, <2>1, <2>2
    <3> QED
      BY <3>1
  <2>3. CASE ~(j < k)
    <3>1. j # k
      BY <1>2, <2>1
    <3>2. j - 1 \in 1 .. n - 1 /\ ~(j - 1 < k) /\ j - 1 + 1 = j
      BY <2>3, <3>1
    <3>3. z[j - 1] = y
      BY <1>6, <2>1, <3>2
    <3> QED
      BY <3>2, <3>3
  <2> QED
    BY <2>2, <2>3
<1>10. \A i, j \in 1 .. n - 1 : z[i] = z[j] => i = j
  <2> SUFFICES ASSUME NEW i \in 1 .. n - 1, NEW j \in 1 .. n - 1, z[i] = z[j] PROVE i = j
    OBVIOUS
  <2>1. \A a, b \in 1 .. n : s[a] = s[b] => a = b
    BY <1>1 DEF Orders
  <2>2. CASE i < k /\ j < k
    BY <1>6, <2>1, <2>2
  <2>3. CASE ~(i < k) /\ ~(j < k)
    <3>1. i + 1 = j + 1
      BY <1>6, <2>1, <2>3
    <3> QED
      BY <3>1
  <2>4. CASE i < k /\ ~(j < k)
    <3>1. i = j + 1
      BY <1>6, <2>1, <2>4
    <3> QED
      BY <2>4, <3>1
  <2>5. CASE ~(i < k) /\ j < k
    <3>1. i + 1 = j
      BY <1>6, <2>1, <2>5
    <3> QED
      BY <2>5, <3>1
  <2> QED
    BY <2>2, <2>3, <2>4, <2>5
<1>11. \A a, b \in 1 .. n : s[a] = s[b] => a = b
  BY <1>1 DEF Orders
\* The links of the element that was at a place other than k.
<1>12. ASSUME NEW a \in 1 .. n, a # k
       PROVE  /\ m.next[s[a]] = IF a + 1 = k THEN l.next[x] ELSE l.next[s[a]]
              /\ m.prev[s[a]] = IF a = k + 1 THEN l.prev[x] ELSE l.prev[s[a]]
  <2>1. s[a] \in T /\ s[a] # null
    BY <1>7
  <2>2. s[a] = l.prev[x] <=> a + 1 = k
    <3>1. CASE k = 1
      BY <1>5, <2>1, <3>1
    <3>2. CASE k # 1
      <4>1. k - 1 \in 1 .. n
        BY <3>2
      <4>2. l.prev[x] = s[k - 1]
        BY <1>5, <3>2
      <4>3. s[a] = s[k - 1] <=> a = k - 1
        BY <1>11, <4>1
      <4> QED
        BY <4>2, <4>3
    <3> QED
      BY <3>1, <3>2
  <2>3. s[a] = l.next[x] <=> a = k + 1
    <3>1. CASE k = n
      BY <1>5, <2>1, <3>1
    <3>2. CASE k # n
      <4>1. k + 1 \in 1 .. n
        BY <3>2
      <4>2. l.next[x] = s[k + 1]
        BY <1>5, <3>2
      <4>3. s[a] = s[k + 1] <=> a = k + 1
        BY <1>11, <4>1
      <4> QED
        BY <4>2, <4>3
    <3> QED
      BY <3>1, <3>2
  <2> QED
    BY <1>3, <2>1, <2>2, <2>3
<1>13. ASSUME NEW i \in 1 .. n - 1
       PROVE  /\ m.next[z[i]] = IF i = n - 1 THEN null ELSE z[i + 1]
              /\ m.prev[z[i]] = IF i = 1 THEN null ELSE z[i - 1]
  <2>1. i # n - 1 => i + 1 \in 1 .. n - 1
    OBVIOUS
  <2>2. i # 1 => i - 1 \in 1 .. n - 1
    OBVIOUS
  <2>3. CASE i < k
    <3>1. z[i] = s[i] /\ i \in 1 .. n /\ i # k
      BY <1>6, <2>3
    <3>2. i # 1 => z[i - 1] = s[i - 1]
      BY <1>6, <2>2, <2>3
    <3>3. m.prev[z[i]] = IF i = 1 THEN null ELSE z[i - 1]
      <4>1. m.prev[z[i]] = l.prev[s[i]] /\ l.prev[s[i]] = IF i = 1 THEN null ELSE s[i - 1]
        BY <1>0, <1>12, <2>3, <3>1
      <4> QED
        BY <3>2, <4>1
    <3>4. CASE i + 1 = k
      <4>1. m.next[z[i]] = IF k = n THEN null ELSE s[k + 1]
        BY <1>5, <1>12, <3>1, <3>4
      <4>2. i # n - 1 => z[i + 1] = s[k + 1]
        BY <1>6, <2>1, <3>4
      <4> QED
        BY <3>3, <3>4, <4>1, <4>2
    <3>5. CASE i + 1 # k
      <4>1. i # n - 1 /\ i # n /\ i + 1 < k
        BY <2>3, <3>5
      <4>2. z[i + 1] = s[i + 1]
        BY <1>6, <2>1, <4>1
      <4> QED
        <5>1. m.next[z[i]] = l.next[s[i]]
          BY <1>12, <3>1, <3>5
        <5>2. l.next[s[i]] = s[i + 1]
          BY <1>0, <3>1, <4>1
        <5> QED
          BY <3>3, <4>1, <4>2, <5>1, <5>2
    <3> QED
      BY <3>4, <3>5
  <2>4. CASE ~(i < k)
    <3>1. z[i] = s[i + 1] /\ i + 1 \in 1 .. n /\ i + 1 # k /\ i + 1 # 1 /\ i + 1 + 1 # k
      BY <1>6, <2>4
    <3>2. i # n - 1 => z[i + 1] = s[i + 1 + 1]
      BY <1>6, <2>1, <2>4
    <3>3. m.next[z[i]] = IF i = n - 1 THEN null ELSE z[i + 1]
      <4>1. m.next[z[i]] = l.next[s[i + 1]]
        BY <1>12, <3>1
      <4>2. l.next[s[i + 1]] = IF i + 1 = n THEN null ELSE s[i + 1 + 1]
        BY <1>0, <3>1
      <4> QED
        BY <3>2, <4>1, <4>2
    <3>4. CASE i = k
      <4>1. m.prev[z[i]] = IF k = 1 THEN null ELSE s[k - 1]
        BY <1>5, <1>12, <3>1, <3>4
      <4>2. i # 1 => z[i - 1] = s[k - 1]
        BY <1>6, <2>2, <3>4
      <4> QED
        BY <3>3, <3>4, <4>1, <4>2
    <3>5. CASE i # k
      <4>1. i # 1 /\ ~(i - 1 < k)
        BY <2>4, <3>5
      <4>2. z[i - 1] = s[i]
        BY <1>6, <2>2, <4>1
      <4>3. m.prev[z[i]] = l.prev[s[i + 1]]
        BY <1>12, <3>1, <3>5
      <4>4. l.prev[s[i + 1]] = s[i]
        <5>1. l.prev[s[i + 1]] = IF i + 1 = 1 THEN null ELSE s[i + 1 - 1]
          BY <1>0, <3>1
        <5>2. i + 1 - 1 = i
          OBVIOUS
        <5> QED
          BY <3>1, <5>1, <5>2
      <4> QED
        BY <3>3, <4>1, <4>2, <4>3, <4>4
    <3> QED
      BY <3>4, <3>5
  <2> QED
    BY <2>3, <2>4
<1>14. m.head = IF n - 1 = 0 THEN null ELSE z[1]
  <2>1. l.head = s[1] /\ 1 \in 1 .. n
    BY <1>1 DEF Orders
  <2>2. CASE k = 1
    <3>1. m.head = IF n = 1 THEN null ELSE s[2]
      BY <1>2, <1>3, <1>5, <2>1, <2>2
    <3>2. n # 1 => z[1] = s[2]
      BY <1>6, <2>2
    <3> QED
      BY <3>1, <3>2
  <2>3. CASE k # 1
    <3>1. l.head # x /\ n # 1 /\ 1 \in 1 .. n - 1 /\ 1 < k
      BY <1>7, <2>1, <2>3
    <3> QED
      BY <1>3, <1>6, <2>1, <3>1
  <2> QED
    BY <2>2, <2>3
<1>15. IsList(m, S \ {x}, n - 1, null)
  BY <1>8, <1>9, <1>10, <1>13, <1>14 DEF IsList
<1> QED
  BY <1>4, <1>5, <1>15 DEF m

\* The list of a new table has all its trampolines.
LEMMA FullListIsList ==
  FullList \in Links(Ks, 0) /\ IsList(FullList, Ks, NTramp, 0)
<1> USE TrampAssumption DEF Ks
<1>1. FullList \in Links(Ks, 0)
  BY DEF FullList, Links
<1> DEFINE z == [i \in 1 .. NTramp |-> NTramp + 1 - i]
<1>2. z \in [1 .. NTramp -> Ks] /\ \A i \in 1 .. NTramp : z[i] = NTramp + 1 - i
  OBVIOUS
<1> HIDE DEF z
<1>3. \A x \in Ks : \E i \in 1 .. NTramp : z[i] = x
  <2> SUFFICES ASSUME NEW x \in Ks PROVE \E i \in 1 .. NTramp : z[i] = x
    OBVIOUS
  <2>1. NTramp + 1 - x \in 1 .. NTramp /\ z[NTramp + 1 - x] = x
    BY <1>2
  <2> QED
    BY <2>1
<1>4. \A i, j \in 1 .. NTramp : z[i] = z[j] => i = j
  BY <1>2
<1>5. FullList.head = IF NTramp = 0 THEN 0 ELSE z[1]
  BY <1>2 DEF FullList
<1>6. ASSUME NEW i \in 1 .. NTramp
      PROVE  /\ FullList.next[z[i]] = IF i = NTramp THEN 0 ELSE z[i + 1]
             /\ FullList.prev[z[i]] = IF i = 1 THEN 0 ELSE z[i - 1]
  <2>1. \A k \in Ks : FullList.next[k] = k - 1 /\ FullList.prev[k] = IF k = NTramp THEN 0 ELSE k + 1
    BY DEF FullList
  <2>2. z[i] \in Ks /\ z[i] = NTramp + 1 - i
    BY <1>2
  <2>3. i # NTramp => z[i + 1] = NTramp - i
    BY <1>2
  <2>4. i # 1 => z[i - 1] = NTramp + 2 - i
    BY <1>2
  <2> HIDE DEF Ks
  <2> QED
    BY <2>1, <2>2, <2>3, <2>4
<1> QED
  BY <1>1, <1>2, <1>3, <1>4, <1>5, <1>6 DEF IsList

-----------------------------------------------------------------------------
(* The pool.                                                               *)

\* tramp_table_add and tramp_table_del, for any members of the tables' list.
LEMMA TableAddFacts ==
  ASSUME NEW p \in Pool, NEW S \in SUBSET Tables, NEW t \in Tables \ S,
         IsList(p.tables, S, p.ntables, NULL)
  PROVE  /\ TableAdd(p, t) \in Pool
         /\ IsList(TableAdd(p, t).tables, S \cup {t}, TableAdd(p, t).ntables, NULL)
         /\ TableAdd(p, t).mapped = p.mapped /\ TableAdd(p, t).free = p.free
         /\ TableAdd(p, t).nfree = p.nfree /\ TableAdd(p, t).ntables = p.ntables + 1
<1>1. p.tables \in Links(Tables, NULL) /\ p.ntables \in Nat
  BY DEF Pool
<1>2. /\ PushLink(p.tables, t, NULL) \in Links(Tables, NULL)
      /\ IsList(PushLink(p.tables, t, NULL), S \cup {t}, p.ntables + 1, NULL)
  BY <1>1, TrampAssumption, PushLinkKeeps
<1> DEFINE l == PushLink(p.tables, t, NULL)
<1> HIDE DEF l
<1>3. TableAdd(p, t) = [p EXCEPT !.tables = l, !.ntables = p.ntables + 1]
  BY DEF TableAdd, l
<1>4. l \in Links(Tables, NULL) /\ p.ntables + 1 \in Nat
  BY <1>1, <1>2 DEF l
<1>5. TableAdd(p, t) \in Pool
  BY <1>3, <1>4 DEF Pool
<1>6. /\ TableAdd(p, t).tables = l /\ TableAdd(p, t).ntables = p.ntables + 1
      /\ TableAdd(p, t).mapped = p.mapped /\ TableAdd(p, t).free = p.free
      /\ TableAdd(p, t).nfree = p.nfree
  BY <1>3 DEF Pool
<1> QED
  BY <1>2, <1>5, <1>6 DEF l

LEMMA TableDelFacts ==
  ASSUME NEW p \in Pool, NEW S \in SUBSET Tables, NEW t \in S,
         IsList(p.tables, S, p.ntables, NULL)
  PROVE  /\ TableDel(p, t) \in Pool
         /\ IsList(TableDel(p, t).tables, S \ {t}, TableDel(p, t).ntables, NULL)
         /\ TableDel(p, t).mapped = p.mapped /\ TableDel(p, t).free = p.free
         /\ TableDel(p, t).nfree = p.nfree
<1>1. p.tables \in Links(Tables, NULL) /\ p.ntables \in Nat
  BY DEF Pool
<1>2. /\ Unlink(p.tables, t, NULL) \in Links(Tables, NULL) /\ p.ntables - 1 \in Nat
      /\ IsList(Unlink(p.tables, t, NULL), S \ {t}, p.ntables - 1, NULL)
  BY <1>1, TrampAssumption, UnlinkKeeps
<1> DEFINE l == Unlink(p.tables, t, NULL)
<1> HIDE DEF l
<1>3. TableDel(p, t) = [p EXCEPT !.tables = l, !.ntables = p.ntables - 1]
  BY DEF TableDel, l
<1>4. l \in Links(Tables, NULL) /\ p.ntables - 1 \in Nat
  BY <1>2 DEF l
<1>5. TableDel(p, t) \in Pool
  BY <1>3, <1>4 DEF Pool
<1>6. /\ TableDel(p, t).tables = l /\ TableDel(p, t).ntables = p.ntables - 1
      /\ TableDel(p, t).mapped = p.mapped /\ TableDel(p, t).free = p.free
      /\ TableDel(p, t).nfree = p.nfree
  BY <1>3 DEF Pool
<1> QED
  BY <1>2, <1>5, <1>6 DEF l

\* tramp_table_alloc: a table of which nothing is held.
LEMMA TableAllocExact ==
  ASSUME NEW p, NEW F \in [Tables -> SUBSET Ks], Exact(p, F),
         NEW t \in Tables, t \notin p.mapped, F[t] = Ks
  PROVE  /\ Exact(TableAlloc(p, t), F)
         /\ TableAlloc(p, t).mapped = p.mapped \cup {t}
         /\ TableAlloc(p, t).nfree = [p.nfree EXCEPT ![t] = NTramp]
         /\ TableAlloc(p, t).free[t].head = NTramp
         /\ TableAlloc(p, t).ntables = p.ntables + 1
<1> DEFINE q == [p EXCEPT !.mapped = @ \cup {t}, !.free[t] = FullList, !.nfree[t] = NTramp]
           r == TableAdd(q, t)
           S == {u \in p.mapped : F[u] # {}}
<1>1. p \in Pool /\ NTramp \in 0 .. NTramp /\ Ks # {} /\ p.mapped \subseteq Tables
  BY TrampAssumption DEF Exact, Ks, Pool
<1>2. /\ q \in Pool /\ q.mapped = p.mapped \cup {t} /\ q.tables = p.tables
      /\ q.ntables = p.ntables /\ q.free = [p.free EXCEPT ![t] = FullList]
      /\ q.nfree = [p.nfree EXCEPT ![t] = NTramp]
  BY <1>1, FullListIsList DEF Pool
<1> HIDE DEF q
<1>3. IsList(q.tables, S, q.ntables, NULL) /\ S \in SUBSET Tables /\ t \in Tables \ S
  BY <1>1, <1>2 DEF Exact
<1>4. /\ r \in Pool /\ IsList(r.tables, S \cup {t}, r.ntables, NULL) /\ r.mapped = q.mapped
      /\ r.free = q.free /\ r.nfree = q.nfree /\ r.ntables = q.ntables + 1
  <2> HIDE DEF S
  <2>1. q \in Pool /\ S \in SUBSET Tables /\ t \in Tables \ S /\ IsList(q.tables, S, q.ntables, NULL)
    BY <1>2, <1>3
  <2> QED
    BY <2>1, TableAddFacts, Zenon
<1>5. TableAlloc(p, t) = r
  BY DEF TableAlloc, q
<1> HIDE DEF r
<1>6. S \cup {t} = {u \in r.mapped : F[u] # {}}
  BY <1>1, <1>2, <1>4
<1>7. ASSUME NEW u \in r.mapped PROVE IsList(r.free[u], F[u], r.nfree[u], 0)
  <2>1. CASE u = t
    <3>1. r.free[t] = FullList /\ r.nfree[t] = NTramp
      BY <1>1, <1>2, <1>4 DEF Pool
    <3> QED
      BY <2>1, <3>1, FullListIsList
  <2>2. CASE u # t
    <3>1. u \in p.mapped /\ r.free[u] = p.free[u] /\ r.nfree[u] = p.nfree[u]
      BY <1>1, <1>2, <1>4, <2>2 DEF Pool
    <3> QED
      BY <3>1 DEF Exact
  <2> QED
    BY <2>1, <2>2
<1>8. r.free[t].head = NTramp
  BY <1>1, <1>2, <1>4 DEF Pool, FullList
<1>9. Exact(r, F)
  BY <1>4, <1>6, <1>7 DEF Exact
<1> QED
  BY <1>2, <1>4, <1>5, <1>8, <1>9

\* tramp_del.
LEMMA TrampDelExact ==
  ASSUME NEW p, NEW F \in [Tables -> SUBSET Ks], Exact(p, F),
         NEW t \in p.mapped, NEW k \in F[t]
  PROVE  /\ Exact(TrampDel(p, t, k), [F EXCEPT ![t] = @ \ {k}])
         /\ TrampDel(p, t, k).mapped = p.mapped
         /\ TrampDel(p, t, k).nfree = [p.nfree EXCEPT ![t] = @ - 1]
         /\ p.nfree[t] \in 1 .. NTramp
<1> DEFINE l == Unlink(p.free[t], k, 0)
           n == p.nfree[t]
           q == [p EXCEPT !.nfree[t] = n - 1, !.free[t] = l]
           G == [F EXCEPT ![t] = @ \ {k}]
           S == {u \in p.mapped : F[u] # {}}
<1>1. /\ p \in Pool /\ p.mapped \subseteq Tables /\ t \in Tables /\ k \in Ks /\ F[t] \in SUBSET Ks
      /\ p.free[t] \in Links(Ks, 0) /\ n \in 0 .. NTramp /\ n \in Nat /\ 0 \notin Ks
      /\ IsList(p.free[t], F[t], n, 0)
  BY TrampAssumption DEF Exact, Pool, Ks
<1>2. l \in Links(Ks, 0) /\ n - 1 \in Nat /\ IsList(l, F[t] \ {k}, n - 1, 0)
  BY <1>1, UnlinkKeeps
<1> HIDE DEF l
<1>3. n \in 1 .. NTramp /\ n - 1 \in 0 .. NTramp
  BY <1>1, <1>2, TrampAssumption
<1>4. /\ q \in Pool /\ q.mapped = p.mapped /\ q.tables = p.tables /\ q.ntables = p.ntables
      /\ q.free = [p.free EXCEPT ![t] = l] /\ q.nfree = [p.nfree EXCEPT ![t] = n - 1]
      /\ q.nfree[t] = n - 1
  BY <1>1, <1>2, <1>3 DEF Pool
<1>5. TrampDel(p, t, k) = IF q.nfree[t] = 0 THEN TableDel(q, t) ELSE q
  BY DEF TrampDel, l
<1> HIDE DEF q
<1>6. G[t] = F[t] \ {k} /\ \A u \in Tables \ {t} : G[u] = F[u]
  BY <1>1
<1> HIDE DEF G
<1>7. ASSUME NEW u \in p.mapped PROVE IsList(q.free[u], G[u], q.nfree[u], 0)
  <2>1. CASE u = t
    BY <1>1, <1>2, <1>4, <1>6, <2>1 DEF Pool
  <2>2. CASE u # t
    <3>1. u \in Tables \ {t} /\ q.free[u] = p.free[u] /\ q.nfree[u] = p.nfree[u]
      BY <1>1, <1>4, <2>2 DEF Pool
    <3> QED
      BY <1>6, <3>1 DEF Exact
  <2> QED
    BY <2>1, <2>2
<1>8. IsList(q.tables, S, q.ntables, NULL) /\ S \in SUBSET Tables /\ t \in S
  BY <1>1, <1>4 DEF Exact
<1>9. n - 1 = 0 <=> G[t] = {}
  <2> DEFINE R == F[t] \ {k}
             i == n - 1
  <2>1. i \in Nat /\ IsList(l, R, i, 0)
    BY <1>2
  <2> HIDE DEF R, i
  <2>2. i = 0 <=> R = {}
    BY <2>1, ListEmpty
  <2> QED
    BY <1>6, <2>2 DEF R, i
<1>10. CASE n - 1 = 0
  <2> DEFINE r == TableDel(q, t)
  <2>1. /\ r \in Pool /\ IsList(r.tables, S \ {t}, r.ntables, NULL)
        /\ r.mapped = q.mapped /\ r.free = q.free /\ r.nfree = q.nfree
    BY <1>4, <1>8, TableDelFacts
  <2>2. TrampDel(p, t, k) = r
    BY <1>4, <1>5, <1>10
  <2> HIDE DEF r
  <2>3. S \ {t} = {u \in p.mapped : G[u] # {}}
    BY <1>1, <1>6, <1>9, <1>10
  <2>4. Exact(r, G)
    BY <1>4, <1>7, <2>1, <2>3 DEF Exact
  <2> QED
    BY <1>3, <1>4, <2>1, <2>2, <2>4 DEF G
<1>11. CASE n - 1 # 0
  <2>1. TrampDel(p, t, k) = q
    BY <1>4, <1>5, <1>11
  <2>2. S = {u \in p.mapped : G[u] # {}}
    BY <1>1, <1>6, <1>8, <1>9, <1>11
  <2>3. Exact(q, G)
    BY <1>4, <1>7, <1>8, <2>2 DEF Exact
  <2> QED
    BY <1>3, <1>4, <2>1, <2>3 DEF G
<1> QED
  BY <1>10, <1>11

\* r is the pool p after tramp_add on a trampoline of table t, which left it
\* the free trampolines G: the table counts one more, or it is gone because
\* all of its trampolines are free and it is not the only table with free ones.
Returned(r, p, G, t) ==
  \/ /\ r.mapped = p.mapped
     /\ r.nfree = [p.nfree EXCEPT ![t] = @ + 1]
     /\ r.nfree[t] = NTramp => r.ntables <= 1
  \/ /\ r.mapped = p.mapped \ {t} /\ G[t] = Ks
     /\ \A u \in r.mapped : r.nfree[u] = p.nfree[u]

\* tramp_add.
LEMMA TrampAddExact ==
  ASSUME NEW p, NEW F \in [Tables -> SUBSET Ks], Exact(p, F),
         NEW t \in p.mapped, NEW k \in Ks, k \notin F[t],
         NEW G, G = [F EXCEPT ![t] = @ \cup {k}]
  PROVE  Exact(TrampAdd(p, t, k), G) /\ Returned(TrampAdd(p, t, k), p, G, t)
<1> DEFINE l == PushLink(p.free[t], k, 0)
           n == p.nfree[t]
           q == [p EXCEPT !.free[t] = l, !.nfree[t] = n + 1]
           r == IF q.nfree[t] = 1 THEN TableAdd(q, t) ELSE q
           S == {u \in p.mapped : F[u] # {}}
<1>1. /\ p \in Pool /\ p.mapped \subseteq Tables /\ t \in Tables /\ k \in Ks /\ F[t] \in SUBSET Ks
      /\ p.free[t] \in Links(Ks, 0) /\ n \in 0 .. NTramp /\ n \in Nat /\ 0 \notin Ks
      /\ IsList(p.free[t], F[t], n, 0)
  BY TrampAssumption DEF Exact, Pool, Ks
<1>2. l \in Links(Ks, 0) /\ IsList(l, F[t] \cup {k}, n + 1, 0)
  BY <1>1, PushLinkKeeps
<1> HIDE DEF l
<1>3. n + 1 <= NTramp /\ (n + 1 = NTramp <=> F[t] \cup {k} = Ks) /\ n + 1 \in 0 .. NTramp
  <2>1. F[t] \cup {k} \in SUBSET Ks /\ n + 1 \in Nat
    BY <1>1
  <2>2. n + 1 <= NTramp /\ (n + 1 = NTramp <=> F[t] \cup {k} = Ks)
    BY <1>2, <2>1, ListLength
  <2> QED
    BY <1>1, <2>2, TrampAssumption
<1>4. /\ q \in Pool /\ q.mapped = p.mapped /\ q.tables = p.tables /\ q.ntables = p.ntables
      /\ q.free = [p.free EXCEPT ![t] = l] /\ q.nfree = [p.nfree EXCEPT ![t] = n + 1]
      /\ q.nfree[t] = n + 1
  BY <1>1, <1>2, <1>3 DEF Pool
<1>5. TrampAdd(p, t, k) = IF Idle(r, t) THEN TableFree(TableDel(r, t), t) ELSE r
  BY DEF TrampAdd, l
<1> HIDE DEF q
<1>6. G \in [Tables -> SUBSET Ks] /\ G[t] = F[t] \cup {k} /\ \A u \in Tables \ {t} : G[u] = F[u]
  BY <1>1
<1>7. ASSUME NEW u \in p.mapped PROVE IsList(q.free[u], G[u], q.nfree[u], 0)
  <2>1. CASE u = t
    BY <1>1, <1>2, <1>4, <1>6, <2>1 DEF Pool
  <2>2. CASE u # t
    <3>1. u \in Tables \ {t} /\ q.free[u] = p.free[u] /\ q.nfree[u] = p.nfree[u]
      BY <1>1, <1>4, <2>2 DEF Pool
    <3> QED
      BY <1>6, <3>1 DEF Exact
  <2> QED
    BY <2>1, <2>2
<1>8. IsList(q.tables, S, q.ntables, NULL) /\ S \in SUBSET Tables
  BY <1>1, <1>4 DEF Exact
<1>9. n = 0 <=> F[t] = {}
  <2> DEFINE R == F[t]
             list == p.free[t]
  <2>1. n \in Nat /\ IsList(list, R, n, 0)
    BY <1>1
  <2> HIDE DEF R, list, n
  <2>2. n = 0 <=> R = {}
    BY <2>1, ListEmpty
  <2> QED
    BY <2>2 DEF R
<1>10. S \cup {t} = {u \in p.mapped : G[u] # {}}
  BY <1>1, <1>6
<1>11. /\ r \in Pool /\ IsList(r.tables, S \cup {t}, r.ntables, NULL)
       /\ r.mapped = q.mapped /\ r.free = q.free /\ r.nfree = q.nfree
  <2>1. CASE n = 0
    <3>1. t \in Tables \ S /\ r = TableAdd(q, t)
      BY <1>1, <1>4, <1>9, <2>1
    <3>2. q \in Pool /\ S \in SUBSET Tables /\ IsList(q.tables, S, q.ntables, NULL)
      BY <1>4, <1>8
    <3> HIDE DEF q, r, S
    <3>3. /\ TableAdd(q, t) \in Pool
          /\ IsList(TableAdd(q, t).tables, S \cup {t}, TableAdd(q, t).ntables, NULL)
          /\ TableAdd(q, t).mapped = q.mapped /\ TableAdd(q, t).free = q.free
          /\ TableAdd(q, t).nfree = q.nfree
      BY <3>1, <3>2, TableAddFacts, Zenon
    <3> QED
      BY <3>1, <3>3
  <2>2. CASE n # 0
    <3>1. S \cup {t} = S /\ r = q
      BY <1>1, <1>4, <1>9, <2>2
    <3> QED
      BY <1>4, <1>8, <3>1
  <2> HIDE DEF n, r
  <2> QED
    BY <2>1, <2>2, Zenon
<1> HIDE DEF r
<1>12. Exact(r, G)
  BY <1>4, <1>7, <1>10, <1>11 DEF Exact
<1>13. CASE ~Idle(r, t)
  <2>1. r.nfree[t] = NTramp => r.ntables <= 1
    BY <1>11, <1>13 DEF Idle, Pool
  <2> QED
    BY <1>4, <1>5, <1>11, <1>12, <1>13, <2>1 DEF Returned
<1>14. CASE Idle(r, t)
  <2> DEFINE d == TableDel(r, t)
             f == TableFree(d, t)
  <2>1. /\ d \in Pool /\ IsList(d.tables, (S \cup {t}) \ {t}, d.ntables, NULL)
        /\ d.mapped = r.mapped /\ d.free = r.free /\ d.nfree = r.nfree
    <3> DEFINE R == S \cup {t}
    <3>1. R \in SUBSET Tables /\ t \in R /\ IsList(r.tables, R, r.ntables, NULL)
      BY <1>1, <1>8, <1>11
    <3> HIDE DEF R
    <3>2. IsList(d.tables, R \ {t}, d.ntables, NULL) /\ d \in Pool
          /\ d.mapped = r.mapped /\ d.free = r.free /\ d.nfree = r.nfree
      BY <1>11, <3>1, TableDelFacts
    <3> QED
      BY <3>2 DEF R
  <2> HIDE DEF d
  <2>2. EmptyPool.free[t] \in Links(Ks, 0) /\ 0 \in 0 .. NTramp
    BY <1>1, TrampAssumption DEF EmptyPool, Links, Ks
  <2>3. /\ f \in Pool /\ f.mapped = d.mapped \ {t} /\ f.tables = d.tables /\ f.ntables = d.ntables
        /\ \A u \in Tables \ {t} : f.free[u] = d.free[u] /\ f.nfree[u] = d.nfree[u]
    BY <2>1, <2>2 DEF TableFree, Pool
  <2>4. TrampAdd(p, t, k) = f
    BY <1>5, <1>14 DEF d
  <2> HIDE DEF f
  <2>5. (S \cup {t}) \ {t} = {u \in f.mapped : G[u] # {}}
    BY <1>4, <1>10, <1>11, <2>1, <2>3
  <2>6. ASSUME NEW u \in f.mapped PROVE IsList(f.free[u], G[u], f.nfree[u], 0) /\ f.nfree[u] = p.nfree[u]
    <3>1. u \in p.mapped /\ u \in Tables \ {t}
      BY <1>1, <1>4, <1>11, <2>1, <2>3
    <3>2. f.free[u] = q.free[u] /\ f.nfree[u] = q.nfree[u] /\ q.nfree[u] = p.nfree[u]
      BY <1>1, <1>4, <1>11, <2>1, <2>3, <3>1 DEF Pool
    <3> QED
      BY <1>7, <3>1, <3>2
  <2>7. Exact(f, G)
    BY <2>1, <2>3, <2>5, <2>6 DEF Exact
  <2>8. G[t] = Ks
    BY <1>3, <1>4, <1>6, <1>11, <1>14 DEF Idle
  <2> QED
    BY <1>4, <1>11, <2>1, <2>3, <2>4, <2>6, <2>7, <2>8 DEF Returned
<1> QED
  BY <1>13, <1>14

\* A pool without tables, whatever is free.
LEMMA EmptyPoolExact ==
  ASSUME NEW F \in [Tables -> SUBSET Ks]
  PROVE  Exact(EmptyPool, F)
<1>1. /\ EmptyPool.mapped = {} /\ EmptyPool.ntables = 0 /\ EmptyPool.tables.head = NULL
      /\ EmptyPool.tables \in Links(Tables, NULL)
  BY DEF EmptyPool, Links
<1>2. EmptyPool.free \in [Tables -> Links(Ks, 0)] /\ EmptyPool.nfree \in [Tables -> 0 .. NTramp]
  BY TrampAssumption DEF EmptyPool, Links
<1>3. EmptyPool \in Pool
  <2>1. EmptyPool = [mapped |-> EmptyPool.mapped, tables |-> EmptyPool.tables,
                     ntables |-> EmptyPool.ntables, free |-> EmptyPool.free,
                     nfree |-> EmptyPool.nfree]
    BY DEF EmptyPool
  <2> QED
    BY <1>1, <1>2, <2>1 DEF Pool
<1> HIDE DEF EmptyPool
<1>4. IsList(EmptyPool.tables, {}, 0, NULL)
  <2> DEFINE s == [i \in 1 .. 0 |-> 0]
  <2>1. s \in [1 .. 0 -> {}]
    OBVIOUS
  <2> QED
    BY <1>1, <2>1 DEF IsList
<1> QED
  BY <1>1, <1>3, <1>4 DEF Exact

-----------------------------------------------------------------------------
(* The closures.                                                           *)

\* The free trampolines stay the same as long as the same closures hold the
\* same ones.
LEMMA SameFree ==
  ASSUME \A c \in Closures : Holds(c)' <=> Holds(c),
         \A c \in Closures : Holds(c) => ftramp'[c] = ftramp[c]
  PROVE  Free' = Free
<1>1. \A t \in Tables : FreeOf(t)' = FreeOf(t)
  BY DEF FreeOf
<1> QED
  BY <1>1 DEF Free

\* Free by its tables, before and after a step.
LEMMA FreeTypes ==
  /\ Free \in [Tables -> SUBSET Ks]
  /\ \A t \in Tables : Free[t] = FreeOf(t)
BY DEF Free, FreeOf

LEMMA FreeTypesNext ==
  /\ Free' \in [Tables -> SUBSET Ks]
  /\ \A t \in Tables : Free'[t] = FreeOf(t)'
BY DEF Free, FreeOf

LEMMA InitIInv == Init => IInv
<1> SUFFICES ASSUME Init PROVE IInv
  OBVIOUS
<1>1. Types
  BY DEF Init, Types
<1>2. Exact(pool, Free)
  BY EmptyPoolExact, FreeTypes DEF Init
<1>3. Decided
  BY DEF Init, Decided
<1>4. Holding
  BY DEF Init, Holding, Holds
<1>5. OneIdleTable
  BY DEF Init, EmptyPool, OneIdleTable
<1> QED
  BY <1>1, <1>2, <1>3, <1>4, <1>5 DEF IInv

\* Steps that leave the pool, and who holds what, alone.
LEMMA PoolUnchanged ==
  ASSUME IInv, UNCHANGED pool,
         \A c \in Closures : Holds(c)' <=> Holds(c),
         \A c \in Closures : Holds(c) => ftramp'[c] = ftramp[c]
  PROVE  Exact(pool', Free') /\ OneIdleTable'
<1>1. Free' = Free
  BY SameFree
<1> QED
  BY <1>1 DEF IInv, OneIdleTable

LEMMA AllocChunkIInv ==
  ASSUME IInv, NEW c \in Closures, AllocChunk(c)
  PROVE  IInv'
<1>1. Types /\ Decided /\ Holding
  BY DEF IInv
<1>2. /\ pc[c] = "free" /\ pc' = [pc EXCEPT ![c] = pc'[c]]
      /\ IF status' = "passed" THEN pc'[c] = "ffi_tramp_alloc" ELSE pc'[c] = "ready"
      /\ UNCHANGED <<platform, parm, ftramp>>
      /\ code' = code \/ (status' # "passed" /\ code' = [code EXCEPT ![c] = c])
  BY <1>1 DEF AllocChunk, Types
<1>3. CASE UNCHANGED <<status, pool>> /\ ~Undecided
  <2>1. \A d \in Closures : d # c => pc'[d] = pc[d]
    BY <1>1, <1>2 DEF Types
  <2>2. \A d \in Closures : Holds(d)' <=> Holds(d)
    BY <1>2, <1>3, <2>1 DEF Holds
  <2>3. Types'
    BY <1>1, <1>2, <1>3 DEF Types
  <2>4. Decided'
    BY <1>1, <1>2, <1>3, <2>1 DEF Decided, Undecided
  <2>5. ~Holds(c) /\ \A d \in Closures : Holds(d) => code'[d] = code[d] /\ pc'[d] = pc[d]
    BY <1>1, <1>2, <2>1 DEF Types, Holds
  <2>6. Holding'
    BY <1>1, <1>2, <1>3, <2>2, <2>5 DEF Holding
  <2>7. Exact(pool', Free') /\ OneIdleTable'
    BY <1>2, <1>3, <2>2, PoolUnchanged
  <2> QED
    BY <2>3, <2>4, <2>6, <2>7 DEF IInv
<1>4. CASE Undecided /\ status' \in {"passed", "failed"}
           /\ (status' = "failed" => UNCHANGED pool)
           /\ (status' = "passed" => \E t \in Tables : pool' = TableAlloc(EmptyPool, t))
  <2>1. pool = EmptyPool /\ \A d \in Closures : pc[d] = "free"
    BY <1>1, <1>4 DEF Decided, Undecided
  <2>2. \A d \in Closures : ~Holds(d)'
    BY <1>1, <1>2, <1>4, <2>1 DEF Types, Holds
  <2>3. Types'
    BY <1>1, <1>2, <1>4 DEF Types
  <2>4. Decided'
    BY <1>1, <1>2, <1>4, <2>1 DEF Types, Decided, Undecided
  <2>5. Holding'
    BY <2>2 DEF Holding
  <2>6. \A t \in Tables : Free'[t] = Ks
    BY <2>2, FreeTypesNext DEF FreeOf
  <2>7. Exact(pool', Free') /\ OneIdleTable'
    <3>1. CASE status' = "failed"
      <4>1. pool' = EmptyPool
        BY <1>4, <2>1, <3>1
      <4> QED
        BY <4>1, EmptyPoolExact, FreeTypesNext DEF OneIdleTable, EmptyPool
    <3>2. CASE status' = "passed"
      <4>1. PICK t \in Tables : pool' = TableAlloc(EmptyPool, t)
        BY <1>4, <3>2
      <4>2. ASSUME NEW F \in [Tables -> SUBSET Ks], F[t] = Ks
            PROVE  Exact(TableAlloc(EmptyPool, t), F) /\ TableAlloc(EmptyPool, t).mapped = {t}
        <5>1. Exact(EmptyPool, F) /\ t \notin EmptyPool.mapped /\ EmptyPool.mapped = {}
          BY EmptyPoolExact DEF EmptyPool
        <5>2. \A e : Exact(e, F) /\ t \notin e.mapped =>
                     /\ Exact(TableAlloc(e, t), F)
                     /\ TableAlloc(e, t).mapped = e.mapped \cup {t}
          BY <4>2, TableAllocExact
        <5> QED
          BY <5>1, <5>2
      <4>3. Exact(pool', Free') /\ pool'.mapped = {t}
        BY <2>6, <4>1, <4>2, FreeTypesNext
      <4> QED
        BY <4>3 DEF OneIdleTable
    <3> QED
      BY <1>4, <3>1, <3>2
  <2> QED
    BY <2>3, <2>4, <2>5, <2>7 DEF IInv
<1> QED
  BY <1>3, <1>4 DEF AllocChunk, TrampInit

LEMMA TakeTrampIInv ==
  ASSUME IInv, NEW c \in Closures, TakeTramp(c)
  PROVE  IInv'
<1>1. Types /\ Decided /\ Holding /\ Exact(pool, Free) /\ OneIdleTable
  BY DEF IInv
<1> DEFINE fresh == pool.ntables = 0
<1>2. PICK t \in Tables :
        LET p == IF fresh THEN TableAlloc(pool, t) ELSE pool
            k == p.free[t].head
        IN  /\ IF fresh THEN t \notin pool.mapped ELSE t = pool.tables.head
            /\ pool' = TrampDel(p, t, k)
            /\ ftramp' = [ftramp EXCEPT ![c] = <<t, k>>]
            /\ parm' = [s \in Slots |-> IF fresh /\ s[1] = t THEN NULL ELSE parm[s]]
  BY DEF TakeTramp
<1> DEFINE p == IF fresh THEN TableAlloc(pool, t) ELSE pool
           k == p.free[t].head
<1>3. /\ pool' = TrampDel(p, t, k) /\ ftramp' = [ftramp EXCEPT ![c] = <<t, k>>]
      /\ parm' = [s \in Slots |-> IF fresh /\ s[1] = t THEN NULL ELSE parm[s]]
      /\ pc[c] = "ffi_tramp_alloc" /\ pc' = [pc EXCEPT ![c] = "ffi_tramp_get_addr"]
      /\ UNCHANGED <<platform, status, code>>
  BY <1>2 DEF TakeTramp
<1>4. /\ Exact(p, Free) /\ t \in p.mapped /\ k \in Free[t] /\ pool.mapped \subseteq p.mapped
      /\ fresh => t \notin pool.mapped
      /\ \A u, v \in p.mapped : p.nfree[u] = NTramp /\ p.nfree[v] = NTramp => u = v \/ u = t \/ v = t
  <2>1. pool \in Pool
    BY <1>1 DEF Exact
  <2>2. CASE fresh
    <3>1. t \notin pool.mapped /\ p = TableAlloc(pool, t)
      BY <1>2, <2>2
    <3>2. Free[t] = Ks
      <4>1. \A j \in Ks : <<t, j>>[1] = t
        OBVIOUS
      <4>2. \A d \in Closures, j \in Ks : Holds(d) => ftramp[d] # <<t, j>>
        BY <1>1, <3>1, <4>1 DEF Holding
      <4> QED
        BY <4>2, FreeTypes DEF FreeOf
    <3>3. /\ Exact(p, Free) /\ p.mapped = pool.mapped \cup {t}
          /\ p.nfree = [pool.nfree EXCEPT ![t] = NTramp] /\ k = NTramp
      BY <1>1, <3>1, <3>2, FreeTypes, TableAllocExact
    <3>4. NTramp \in Ks
      BY TrampAssumption DEF Ks
    <3> QED
      BY <1>1, <2>1, <3>1, <3>2, <3>3, <3>4 DEF OneIdleTable, Pool
  <2>3. CASE ~fresh
    <3> DEFINE S == {u \in pool.mapped : Free[u] # {}}
    <3>1. t = pool.tables.head /\ p = pool
      BY <1>2, <2>3
    <3>2. pool.ntables \in Nat /\ IsList(pool.tables, S, pool.ntables, NULL)
      BY <1>1, <2>1 DEF Exact, Pool
    <3>3. t \in S
      <4> HIDE DEF S, p
      <4> QED
        BY <2>3, <3>1, <3>2, ListFacts
    <3>4. pool.nfree[t] \in Nat /\ IsList(pool.free[t], Free[t], pool.nfree[t], 0)
      BY <1>1, <2>1, <3>3 DEF Exact, Pool
    <3>5. \A l, n, R : n \in Nat /\ IsList(l, R, n, 0) /\ R # {} => l.head \in R
      <4> SUFFICES ASSUME NEW l, NEW n \in Nat, NEW R, IsList(l, R, n, 0), R # {}
                   PROVE  l.head \in R
        OBVIOUS
      <4> QED
        BY ListFacts
    <3>6. pool.free[t].head \in Free[t]
      BY <3>3, <3>4, <3>5
    <3> QED
      BY <1>1, <2>3, <3>1, <3>3, <3>6 DEF OneIdleTable
  <2> QED
    BY <2>2, <2>3
<1> HIDE DEF p, k
<1> DEFINE G == [Free EXCEPT ![t] = @ \ {k}]
<1>5. /\ Exact(pool', G) /\ pool'.mapped = p.mapped
      /\ pool'.nfree = [p.nfree EXCEPT ![t] = @ - 1] /\ p.nfree[t] \in 1 .. NTramp
  <2>1. /\ Exact(TrampDel(p, t, k), G) /\ TrampDel(p, t, k).mapped = p.mapped
        /\ TrampDel(p, t, k).nfree = [p.nfree EXCEPT ![t] = @ - 1]
        /\ p.nfree[t] \in 1 .. NTramp
    <3>1. ASSUME NEW F \in [Tables -> SUBSET Ks], Exact(p, F), k \in F[t]
          PROVE  /\ Exact(TrampDel(p, t, k), [F EXCEPT ![t] = @ \ {k}])
                 /\ TrampDel(p, t, k).mapped = p.mapped
                 /\ TrampDel(p, t, k).nfree = [p.nfree EXCEPT ![t] = @ - 1]
                 /\ p.nfree[t] \in 1 .. NTramp
      BY <1>4, <3>1, TrampDelExact
    <3> QED
      BY <1>4, <3>1, FreeTypes
  <2> QED
    BY <1>3, <2>1
<1>6. /\ t \in Tables /\ k \in Ks /\ <<t, k>> \in Slots /\ ftramp'[c] = <<t, k>>
      /\ \A d \in Closures : d # c => ftramp'[d] = ftramp[d] /\ pc'[d] = pc[d]
      /\ pc'[c] = "ffi_tramp_get_addr" /\ status = "passed" /\ ~Holds(c)
  BY <1>1, <1>3, <1>4, FreeTypes DEF Types, Slots, Decided, Holds
<1>7. \A d \in Closures : Holds(d)' <=> Holds(d) \/ d = c
  BY <1>3, <1>6 DEF Holds
<1>8. \A d \in Closures : Holds(d) => ftramp[d] # <<t, k>>
  BY <1>4, <1>6, FreeTypes DEF FreeOf
<1>9. Free' = G
  <2>1. ASSUME NEW u \in Tables PROVE FreeOf(u)' = G[u]
    <3>1. \A j \in Ks : <<u, j>> = <<t, k>> <=> u = t /\ j = k
      OBVIOUS
    <3>2. FreeOf(u)' = {j \in FreeOf(u) : <<u, j>> # <<t, k>>}
      BY <1>6, <1>7 DEF FreeOf
    <3>3. G[u] = IF u = t THEN FreeOf(u) \ {k} ELSE FreeOf(u)
      BY FreeTypes
    <3> QED
      BY <3>1, <3>2, <3>3 DEF FreeOf
  <2>2. G \in [Tables -> SUBSET Ks]
    BY FreeTypes
  <2> QED
    BY <2>1, <2>2, FreeTypesNext
<1>10. Types'
  <2>1. parm' \in [Slots -> Closures \cup {NULL}]
    BY <1>1, <1>3 DEF Types
  <2>2. ftramp' \in [Closures -> Slots \cup {NULL}]
    BY <1>1, <1>3, <1>6 DEF Types
  <2> QED
    BY <1>1, <1>3, <2>1, <2>2 DEF Types
<1>11. Decided'
  BY <1>3, <1>6 DEF Decided, Undecided
<1>12. Holding'
  <2>1. ASSUME NEW d \in Closures, Holds(d)'
        PROVE  /\ ftramp'[d] \in Slots /\ ftramp'[d][1] \in pool'.mapped
               /\ pc'[d] # "ffi_tramp_get_addr" => code'[d] = ftramp'[d]
               /\ pc'[d] = "ready" => parm'[ftramp'[d]] = d
    <3>1. CASE d = c
      BY <1>4, <1>5, <1>6, <3>1
    <3>2. CASE d # c
      BY <1>1, <1>3, <1>4, <1>5, <1>6, <1>7, <2>1, <3>2 DEF Holding
    <3> QED
      BY <3>1, <3>2
  <2>2. \A d, e \in Closures : Holds(d)' /\ Holds(e)' /\ ftramp'[d] = ftramp'[e] => d = e
    BY <1>1, <1>6, <1>7, <1>8 DEF Holding
  <2> QED
    BY <2>1, <2>2 DEF Holding
<1>13. OneIdleTable'
  <2>1. p.nfree \in [Tables -> 0 .. NTramp] /\ p.mapped \subseteq Tables
    BY <1>4 DEF Exact, Pool
  <2>2. pool'.nfree[t] # NTramp /\ \A u \in Tables : u # t => pool'.nfree[u] = p.nfree[u]
    BY <1>5, <2>1, TrampAssumption
  <2> QED
    BY <1>4, <1>5, <2>1, <2>2 DEF OneIdleTable
<1> QED
  BY <1>5, <1>9, <1>10, <1>11, <1>12, <1>13 DEF IInv

\* Steps that leave all but one closure alone, and the pool.
LEMMA QuietIInv ==
  ASSUME IInv, NEW c \in Closures, Types', UNCHANGED <<platform, status, pool>>,
         \A d \in Closures : d # c => /\ pc'[d] = pc[d] /\ ftramp'[d] = ftramp[d]
                                      /\ code'[d] = code[d],
         pc[c] # "free", pc'[c] = "ffi_tramp_alloc" => pc[c] = "ffi_tramp_alloc",
         status # "passed" => pc'[c] \in {"free", "ready", "dlfree"},
         Holds(c)' <=> Holds(c),
         Holds(c) => /\ ftramp'[c] = ftramp[c]
                     /\ pc'[c] # "ffi_tramp_get_addr" => code'[c] = ftramp[c]
                     /\ pc'[c] = "ready" => parm'[ftramp[c]] = c,
         \A d \in Closures : d # c /\ Holds(d) => parm'[ftramp[d]] = parm[ftramp[d]]
  PROVE  IInv'
<1>1. Types /\ Decided /\ Holding
  BY DEF IInv
<1>2. \A d \in Closures : Holds(d)' <=> Holds(d)
  BY DEF Holds
<1>3. \A d \in Closures : Holds(d) => ftramp'[d] = ftramp[d]
  OBVIOUS
<1>4. Decided'
  BY <1>1 DEF Decided, Undecided
<1>5. Holding'
  BY <1>1, <1>2, <1>3 DEF Holding
<1>6. Exact(pool', Free') /\ OneIdleTable'
  BY <1>2, <1>3, PoolUnchanged
<1> QED
  BY <1>4, <1>5, <1>6 DEF IInv

LEMMA NoTrampIInv ==
  ASSUME IInv, NEW c \in Closures, NoTramp(c)
  PROVE  IInv'
<1>1. Types /\ Decided
  BY DEF IInv
<1>2. Types' /\ pc'[c] = "free" /\ \A d \in Closures : d # c => pc'[d] = pc[d]
  BY <1>1 DEF NoTramp, Types
<1> QED
  BY <1>1, <1>2, QuietIInv DEF NoTramp, Holds

LEMMA GetAddrIInv ==
  ASSUME IInv, NEW c \in Closures, GetAddr(c)
  PROVE  IInv'
<1>1. Types /\ Decided /\ Holding
  BY DEF IInv
<1>2. pc[c] = "ffi_tramp_get_addr" /\ status = "passed" /\ Holds(c)
  BY <1>1 DEF GetAddr, Decided, Holds
<1>3. /\ pc'[c] = "ffi_tramp_set_parms" /\ code'[c] = ftramp[c]
      /\ \A d \in Closures : d # c => pc'[d] = pc[d] /\ code'[d] = code[d]
      /\ UNCHANGED <<platform, status, pool, parm, ftramp>>
  BY <1>1 DEF GetAddr, Types
<1>4. Types'
  BY <1>1 DEF GetAddr, Types
<1>5. Holds(c)'
  BY <1>2, <1>3 DEF Holds
<1> QED
  BY <1>2, <1>3, <1>4, <1>5, QuietIInv

LEMMA SetParmsIInv ==
  ASSUME IInv, NativeRaw = FALSE, NEW c \in Closures, SetParms(c)
  PROVE  IInv'
<1>1. Types /\ Decided /\ Holding
  BY DEF IInv
<1>2. pc[c] = "ffi_tramp_set_parms" /\ status = "passed" /\ Holds(c)
  BY <1>1 DEF SetParms, Decided, Holds
<1>3. ftramp[c] \in Slots /\ code[c] = ftramp[c]
  BY <1>1, <1>2 DEF Holding
<1>4. /\ pc'[c] = "ready" /\ \A d \in Closures : d # c => pc'[d] = pc[d]
      /\ UNCHANGED <<platform, status, pool, ftramp, code>>
      /\ parm' = [parm EXCEPT ![ftramp[c]] = c]
  BY <1>1 DEF SetParms, Types
<1>5. Types'
  BY <1>1, <1>3, <1>4 DEF SetParms, Types
<1>6. parm'[ftramp[c]] = c /\ \A s \in Slots : s # ftramp[c] => parm'[s] = parm[s]
  BY <1>1, <1>3, <1>4 DEF Types
<1>7. \A d \in Closures : d # c /\ Holds(d) => ftramp[d] \in Slots /\ ftramp[d] # ftramp[c]
  BY <1>1, <1>2 DEF Holding
<1>8. Holds(c)'
  BY <1>2, <1>4 DEF Holds
<1> QED
  BY <1>2, <1>3, <1>4, <1>5, <1>6, <1>7, <1>8, QuietIInv

LEMMA FreeChunkIInv ==
  ASSUME IInv, NEW c \in Closures, FreeChunk(c)
  PROVE  IInv'
<1>1. Types /\ Decided
  BY DEF IInv
<1>2. Types' /\ pc[c] = "dlfree" /\ pc'[c] = "free" /\ UNCHANGED <<platform, status, pool, parm>>
  BY <1>1 DEF FreeChunk, Types
<1>3. \A d \in Closures : d # c => /\ pc'[d] = pc[d] /\ ftramp'[d] = ftramp[d]
                                   /\ code'[d] = code[d]
  BY <1>1 DEF FreeChunk, Types
<1>4. ~Holds(c) /\ ~Holds(c)'
  BY <1>2 DEF Holds
<1> QED
  BY <1>1, <1>2, <1>3, <1>4, QuietIInv

LEMMA FreeTrampIInv ==
  ASSUME IInv, NEW c \in Closures, FreeTramp(c)
  PROVE  IInv'
<1>1. Types /\ Decided /\ Holding /\ Exact(pool, Free) /\ OneIdleTable
  BY DEF IInv
<1>2. /\ pc[c] = "ready" /\ pc'[c] = "dlfree" /\ Types'
      /\ \A d \in Closures : d # c => pc'[d] = pc[d]
      /\ UNCHANGED <<platform, status, parm, ftramp, code>>
  <2>1. pc' = [pc EXCEPT ![c] = "dlfree"] /\ UNCHANGED <<platform, status, parm, ftramp, code>>
    BY DEF FreeTramp
  <2> QED
    BY <1>1, <2>1 DEF FreeTramp, Types
<1>3. CASE status # "passed"
  <2>1. ~Holds(c) /\ ~Holds(c)' /\ UNCHANGED pool
    BY <1>2, <1>3 DEF FreeTramp, Holds
  <2> QED
    BY <1>1, <1>2, <1>3, <2>1, QuietIInv
<1>4. CASE status = "passed"
  <2>1. Holds(c) /\ ~Holds(c)' /\ \A d \in Closures : Holds(d)' <=> Holds(d) /\ d # c
    BY <1>2, <1>4 DEF Holds
  <2>2. PICK t \in Tables, k \in Ks : ftramp[c] = <<t, k>>
    BY <1>1, <2>1 DEF Holding, Slots
  <2>3. /\ t \in pool.mapped /\ k \notin Free[t] /\ pool' = TrampAdd(pool, t, k)
        /\ \A d \in Closures : d # c /\ Holds(d) => ftramp[d] # <<t, k>>
    <3>1. ftramp[c][1] = t /\ ftramp[c][2] = k
      BY <2>2
    <3>2. pool' = TrampAdd(pool, t, k)
      BY <1>4, <3>1 DEF FreeTramp
    <3> QED
      BY <1>1, <2>1, <2>2, <3>1, <3>2, FreeTypes DEF Holding, FreeOf
  <2> DEFINE G == [Free EXCEPT ![t] = @ \cup {k}]
  <2>4. Exact(pool', G) /\ Returned(pool', pool, G, t)
    <3>1. ASSUME NEW F \in [Tables -> SUBSET Ks], Exact(pool, F), k \notin F[t],
                 NEW H, H = [F EXCEPT ![t] = @ \cup {k}]
          PROVE  Exact(TrampAdd(pool, t, k), H) /\ Returned(TrampAdd(pool, t, k), pool, H, t)
      BY <2>3, <3>1, TrampAddExact
    <3> QED
      BY <1>1, <2>3, <3>1, FreeTypes
  <2>5. Free' = G
    <3>1. ASSUME NEW u \in Tables PROVE FreeOf(u)' = G[u]
      <4>1. \A j \in Ks : <<u, j>> = <<t, k>> <=> u = t /\ j = k
        OBVIOUS
      <4>2. FreeOf(u)' = {j \in Ks : j \in FreeOf(u) \/ <<u, j>> = <<t, k>>}
        BY <1>2, <2>1, <2>2, <2>3 DEF FreeOf
      <4>3. G[u] = IF u = t THEN FreeOf(u) \cup {k} ELSE FreeOf(u)
        BY FreeTypes
      <4> QED
        BY <4>1, <4>2, <4>3 DEF FreeOf
    <3>2. G \in [Tables -> SUBSET Ks]
      BY FreeTypes
    <3> QED
      BY <3>1, <3>2, FreeTypesNext
  <2>6. Decided'
    BY <1>2, <1>4 DEF Decided, Undecided
  <2>7. Holding'
    <3>1. ASSUME NEW d \in Closures, Holds(d)' PROVE ftramp[d][1] \in pool'.mapped
      <4>1. Holds(d) /\ d # c /\ ftramp[d] \in Slots /\ ftramp[d][1] \in pool.mapped
        BY <1>1, <2>1, <3>1 DEF Holding
      <4>2. CASE G[t] = Ks
        <5>1. PICK u \in Tables, j \in Ks : ftramp[d] = <<u, j>>
          BY <4>1 DEF Slots
        <5>2. u # t
          BY <1>2, <2>5, <3>1, <4>2, <5>1, FreeTypesNext DEF FreeOf
        <5>3. ftramp[d][1] = u
          BY <5>1
        <5> QED
          BY <2>4, <4>1, <5>2, <5>3 DEF Returned
      <4>3. CASE G[t] # Ks
        BY <2>4, <4>1, <4>3 DEF Returned
      <4> QED
        BY <4>2, <4>3
    <3>2. \A d \in Closures : Holds(d)' => Holds(d) /\ pc'[d] = pc[d]
      BY <1>2, <2>1
    <3> QED
      BY <1>1, <1>2, <3>1, <3>2 DEF Holding
  <2>8. OneIdleTable'
    <3>1. /\ pool.nfree \in [Tables -> 0 .. NTramp] /\ pool.mapped \subseteq Tables
          /\ pool'.mapped \subseteq Tables /\ pool'.ntables \in Nat
      BY <1>1, <2>4 DEF Exact, Pool
    <3>2. CASE pool'.mapped = pool.mapped \ {t}
               /\ \A u \in pool'.mapped : pool'.nfree[u] = pool.nfree[u]
      BY <1>1, <3>2 DEF OneIdleTable
    <3>3. CASE /\ pool'.mapped = pool.mapped
               /\ pool'.nfree = [pool.nfree EXCEPT ![t] = @ + 1]
               /\ pool'.nfree[t] = NTramp => pool'.ntables <= 1
      <4> DEFINE S == {u \in pool'.mapped : G[u] # {}}
      <4>1. \A u \in Tables : u # t => pool'.nfree[u] = pool.nfree[u]
        BY <3>1, <3>3
      <4>2. ASSUME NEW u \in pool'.mapped, u # t, pool'.nfree[u] = NTramp,
                   pool'.nfree[t] = NTramp
            PROVE  FALSE
        <5>1. IsList(pool'.tables, S, pool'.ntables, NULL)
          BY <2>4 DEF Exact
        <5>2. t \in S
          BY <2>3, <3>3, FreeTypes
        <5>3. IsList(pool'.free[u], G[u], pool'.nfree[u], 0) /\ pool'.nfree[u] # 0
              /\ pool'.nfree[u] \in Nat
          BY <2>4, <4>2, TrampAssumption DEF Exact
        <5>4. u \in S
          <6> HIDE DEF G
          <6>1. \A l, n, R : n \in Nat /\ n # 0 /\ IsList(l, R, n, 0) => R # {}
            BY ListEmpty
          <6> QED
            BY <5>3, <6>1
        <5>5. \A l, n, R : n \in Nat /\ t \in R /\ u \in R /\ IsList(l, R, n, NULL) => n > 1
          BY <4>2, ListFacts
        <5>6. pool'.ntables > 1
          <6> HIDE DEF S
          <6> QED
            BY <3>1, <5>1, <5>2, <5>4, <5>5
        <5> QED
          BY <3>1, <3>3, <4>2, <5>6
      <4> QED
        BY <1>1, <3>1, <3>3, <4>1, <4>2 DEF OneIdleTable
    <3> QED
      BY <2>4, <3>2, <3>3 DEF Returned
  <2> QED
    BY <1>2, <2>4, <2>5, <2>6, <2>7, <2>8 DEF IInv
<1> QED
  BY <1>3, <1>4

LEMMA NextIInv ==
  ASSUME NativeRaw = FALSE
  PROVE  IInv /\ [Next]_vars => IInv'
<1> SUFFICES ASSUME IInv, [Next]_vars PROVE IInv'
  OBVIOUS
<1>1. CASE UNCHANGED vars
  <2>1. \A c \in Closures : (Holds(c)' <=> Holds(c)) /\ ftramp'[c] = ftramp[c]
    BY <1>1 DEF vars, Holds
  <2>2. Exact(pool', Free') /\ OneIdleTable'
    BY <1>1, <2>1, PoolUnchanged DEF vars
  <2>3. Types' /\ Decided' /\ Holding'
    BY <1>1, <2>1 DEF IInv, vars, Types, Decided, Undecided, Holding
  <2> QED
    BY <2>2, <2>3 DEF IInv
<1>2. ASSUME NEW c \in Closures,
             \/ AllocChunk(c) \/ TakeTramp(c) \/ NoTramp(c) \/ GetAddr(c) \/ SetParms(c)
             \/ FreeTramp(c) \/ FreeChunk(c)
      PROVE  IInv'
  BY <1>2, AllocChunkIInv, TakeTrampIInv, NoTrampIInv, GetAddrIInv, SetParmsIInv,
     FreeTrampIInv, FreeChunkIInv
<1> QED
  BY <1>1, <1>2 DEF Next

-----------------------------------------------------------------------------
(* What the closures get.                                                  *)

\* The lists, the counters and the closures agree in every reachable state:
\* IInv is an inductive invariant of tramp.c and closures.c.
THEOREM Invariance == ASSUME NativeRaw = FALSE PROVE Spec => []IInv
<1>1. IInv /\ [Next]_vars => IInv'
  BY NextIInv
<1> QED
  BY <1>1, InitIInv, PTL DEF Spec

\* Each table lists the trampolines no closure holds and no other, linked
\* both ways and counted by nfree, and the global list the tables that have
\* one (tramp_add, tramp_del).
THEOREM ListsAlwaysExact == ASSUME NativeRaw = FALSE PROVE Spec => []ListsExact
<1>1. IInv => ListsExact
  <2> SUFFICES ASSUME IInv PROVE ListsExact
    OBVIOUS
  <2>1. Types /\ Exact(pool, Free)
    BY DEF IInv
  <2>2. TypeOK
    BY <2>1 DEF Types, TypeOK, Exact
  <2>3. \A t \in pool.mapped : t \in Tables /\ Free[t] = FreeOf(t)
    BY <2>1, FreeTypes DEF Exact, Pool
  <2>4. {t \in pool.mapped : Free[t] # {}} = {t \in pool.mapped : FreeOf(t) # {}}
    BY <2>3
  <2> QED
    BY <2>1, <2>2, <2>3, <2>4 DEF ListsExact, Exact
<1> QED
  BY <1>1, Invariance, PTL

\* At most one table is wholly free (tramp_add).
THEOREM AtMostOneIdleTable == ASSUME NativeRaw = FALSE PROVE Spec => []OneIdleTable
<1>1. IInv => OneIdleTable
  BY DEF IInv
<1> QED
  BY <1>1, Invariance, PTL

\* The code address of a prepared closure is mapped and enters that closure.
THEOREM AlwaysEntersOwner == ASSUME NativeRaw = FALSE PROVE Spec => []EntersOwner
<1>1. IInv => EntersOwner
  BY DEF IInv, Holding, EntersOwner
<1> QED
  BY <1>1, Invariance, PTL

-----------------------------------------------------------------------------
(* The implementation of TrampPool.                                        *)

\* What TrampPool's variables stand for.
SlotBar == [c \in Closures |-> IF Holds(c) THEN ftramp[c] ELSE NULL]
EntersBar == [s \in Slots |->
                IF \E c \in Closures : Holds(c) /\ pc[c] = "ready" /\ ftramp[c] = s
                THEN parm[s] ELSE NULL]

\* A closure's trampoline enters it from ffi_tramp_set_parms on.
Bound(c) == Holds(c) /\ pc[c] = "ready"

\* In terms of the closures: EntersBar[s] is the closure that is bound to s.
LEMMA EntersIs ==
  IInv => /\ DOMAIN EntersBar = Slots
          /\ \A s \in Slots : \/ \E c \in Closures : Bound(c) /\ ftramp[c] = s /\ EntersBar[s] = c
                              \/ /\ \A c \in Closures : Bound(c) => ftramp[c] # s
                                 /\ EntersBar[s] = NULL
BY DEF IInv, Holding, Bound, EntersBar

LEMMA EntersIsNext ==
  IInv' => /\ DOMAIN EntersBar' = Slots
           /\ \A s \in Slots : \/ \E c \in Closures : Bound(c)' /\ ftramp'[c] = s /\ EntersBar'[s] = c
                               \/ /\ \A c \in Closures : Bound(c)' => ftramp'[c] # s
                                  /\ EntersBar'[s] = NULL
BY DEF IInv, Holding, Bound, EntersBar

\* No two closures are bound to one trampoline.
LEMMA BoundOnce ==
  ASSUME IInv
  PROVE  /\ \A c, d \in Closures : Holds(c) /\ Holds(d) /\ ftramp[c] = ftramp[d] => c = d
         /\ \A c \in Closures : Holds(c) => ftramp[c] \in Slots /\ ftramp[c] # NULL
BY TrampAssumption DEF IInv, Holding, Slots, Ks

\* Every step of the closures' functions is one of TrampPool or changes
\* nothing there.
LEMMA StepImplements ==
  ASSUME NativeRaw = FALSE, IInv, IInv', NEW c \in Closures,
         \/ AllocChunk(c) \/ TakeTramp(c) \/ NoTramp(c) \/ GetAddr(c) \/ SetParms(c)
         \/ FreeTramp(c) \/ FreeChunk(c)
  PROVE  [Promise!Next]_(Promise!vars)
<1>1. Types /\ Decided /\ Holding /\ pc[c] \in {"free", "ffi_tramp_alloc", "ffi_tramp_get_addr",
                                     "ffi_tramp_set_parms", "ready", "dlfree"}
  BY DEF IInv, Types
<1>2. \A d \in Closures : d # c => pc'[d] = pc[d] /\ ftramp'[d] = ftramp[d]
  BY <1>1 DEF Types, AllocChunk, TakeTramp, NoTramp, GetAddr, SetParms, FreeTramp, FreeChunk
<1>3. Promise!vars = <<SlotBar, EntersBar>> /\ Promise!vars' = <<SlotBar', EntersBar'>>
  BY DEF Promise!vars, SlotBar, EntersBar
<1>4. /\ Promise!Acquire(c) <=>
           /\ SlotBar[c] = NULL
           /\ \E s \in Slots : /\ \A d \in Closures : SlotBar[d] # s
                               /\ SlotBar' = [SlotBar EXCEPT ![c] = s]
           /\ EntersBar' = EntersBar
      /\ Promise!Bind(c) <=>
           /\ SlotBar[c] # NULL
           /\ EntersBar' = [EntersBar EXCEPT ![SlotBar[c]] = c]
           /\ SlotBar' = SlotBar
      /\ Promise!Release(c) <=>
           /\ SlotBar[c] # NULL
           /\ SlotBar' = [SlotBar EXCEPT ![c] = NULL]
           /\ EntersBar' = [EntersBar EXCEPT ![SlotBar[c]] = NULL]
  BY DEF Promise!Acquire, Promise!Bind, Promise!Release, SlotBar, EntersBar
<1>5. ASSUME \A d \in Closures : Holds(d)' <=> Holds(d),
             \A d \in Closures : Holds(d) => ftramp'[d] = ftramp[d]
      PROVE  SlotBar' = SlotBar
  BY <1>5 DEF SlotBar
<1>6. ASSUME \A d \in Closures : Bound(d)' <=> Bound(d),
             \A d \in Closures : Bound(d) => ftramp'[d] = ftramp[d]
      PROVE  EntersBar' = EntersBar
  <2>1. \A s \in Slots : EntersBar'[s] = EntersBar[s]
    BY <1>6, EntersIs, EntersIsNext, BoundOnce DEF Bound
  <2> QED
    BY <2>1 DEF EntersBar
<1>7. \A d \in Closures : SlotBar[d] = IF Holds(d) THEN ftramp[d] ELSE NULL
  BY DEF SlotBar
<1>8. CASE AllocChunk(c)
  <2>1. \A d \in Closures : (Holds(d)' <=> Holds(d)) /\ (Bound(d)' <=> Bound(d))
    <3>1. ~Holds(c) /\ ~Holds(c)'
      BY <1>1, <1>8 DEF AllocChunk, Holds, Types
    <3>2. \A d \in Closures : d # c => (Holds(d)' <=> Holds(d))
      BY <1>1, <1>2, <1>8 DEF AllocChunk, TrampInit, Undecided, Holds, Decided
    <3> QED
      BY <1>2, <3>1, <3>2 DEF Bound
  <2>2. ftramp' = ftramp
    BY <1>8 DEF AllocChunk
  <2> QED
    BY <1>3, <1>5, <1>6, <2>1, <2>2
<1>9. CASE NoTramp(c) \/ GetAddr(c) \/ FreeChunk(c)
  <2>1. /\ status' = status /\ ~Bound(c) /\ ~Bound(c)' /\ (Holds(c)' <=> Holds(c))
        /\ Holds(c) => ftramp'[c] = ftramp[c]
    BY <1>1, <1>9 DEF NoTramp, GetAddr, FreeChunk, Holds, Bound, Types
  <2>2. \A d \in Closures : (Holds(d)' <=> Holds(d)) /\ (Bound(d)' <=> Bound(d))
    BY <1>2, <2>1 DEF Holds, Bound
  <2> QED
    BY <1>2, <1>3, <1>5, <1>6, <2>1, <2>2 DEF Bound
<1>10. CASE TakeTramp(c)
  <2>1. /\ status' = status /\ status = "passed" /\ ~Holds(c) /\ Holds(c)' /\ ~Bound(c)'
        /\ ~Bound(c)
    BY <1>1, <1>10 DEF TakeTramp, Holds, Bound, Types, Decided
  <2>2. \A d \in Closures : d # c => (Holds(d)' <=> Holds(d)) /\ (Bound(d)' <=> Bound(d))
    BY <1>2, <2>1 DEF Holds, Bound
  <2>3. EntersBar' = EntersBar
    BY <1>2, <1>6, <2>1, <2>2 DEF Bound
  <2>4. ftramp'[c] \in Slots /\ \A d \in Closures : SlotBar[d] # ftramp'[c]
    <3>1. ftramp'[c] \in Slots /\ \A d \in Closures : Holds(d)' /\ ftramp'[d] = ftramp'[c] => d = c
      BY <2>1 DEF IInv, Holding
    <3>2. NULL \notin Slots
      BY TrampAssumption DEF Slots, Ks
    <3> QED
      BY <1>2, <1>7, <2>1, <2>2, <3>1, <3>2
  <2>5. SlotBar' = [SlotBar EXCEPT ![c] = ftramp'[c]]
    BY <1>2, <2>1, <2>2 DEF SlotBar
  <2>6. Promise!Acquire(c)
    BY <1>4, <1>7, <2>1, <2>3, <2>4, <2>5
  <2> QED
    BY <2>6 DEF Promise!Next
<1>11. CASE SetParms(c)
  <2>1. /\ status' = status /\ Holds(c) /\ Holds(c)' /\ Bound(c)' /\ ~Bound(c) /\ ftramp' = ftramp
    BY <1>1, <1>11 DEF SetParms, Holds, Bound, Types, Decided
  <2>2. \A d \in Closures : d # c => (Holds(d)' <=> Holds(d)) /\ (Bound(d)' <=> Bound(d))
    BY <1>2, <2>1 DEF Holds, Bound
  <2>3. SlotBar' = SlotBar
    BY <1>5, <2>1, <2>2
  <2>4. EntersBar' = [EntersBar EXCEPT ![ftramp[c]] = c]
    <3>1. \A s \in Slots : EntersBar'[s] = IF s = ftramp[c] THEN c ELSE EntersBar[s]
      BY <2>1, <2>2, EntersIs, EntersIsNext, BoundOnce DEF Bound
    <3> QED
      BY <3>1 DEF EntersBar
  <2>5. Promise!Bind(c)
    BY <1>4, <1>7, <2>1, <2>3, <2>4, BoundOnce
  <2> QED
    BY <2>5 DEF Promise!Next
<1>12. CASE FreeTramp(c)
  <2>1. /\ status' = status /\ ~Holds(c)' /\ ~Bound(c)' /\ ftramp' = ftramp
        /\ Holds(c) <=> Bound(c)
    BY <1>1, <1>12 DEF FreeTramp, Holds, Bound, Types
  <2>2. \A d \in Closures : d # c => (Holds(d)' <=> Holds(d)) /\ (Bound(d)' <=> Bound(d))
    BY <1>2, <2>1 DEF Holds, Bound
  <2>3. CASE ~Holds(c)
    BY <1>3, <1>5, <1>6, <2>1, <2>2, <2>3
  <2>4. CASE Holds(c)
    <3>1. SlotBar' = [SlotBar EXCEPT ![c] = NULL]
      BY <1>2, <2>1, <2>2 DEF SlotBar
    <3>2. EntersBar' = [EntersBar EXCEPT ![ftramp[c]] = NULL]
      <4>1. \A s \in Slots : EntersBar'[s] = IF s = ftramp[c] THEN NULL ELSE EntersBar[s]
        BY <2>1, <2>2, <2>4, EntersIs, EntersIsNext, BoundOnce DEF Bound
      <4> QED
        BY <4>1 DEF EntersBar
    <3>3. Promise!Release(c)
      BY <1>4, <1>7, <2>4, <3>1, <3>2, BoundOnce
    <3> QED
      BY <3>3 DEF Promise!Next
  <2> QED
    BY <2>3, <2>4
<1> QED
  BY <1>8, <1>9, <1>10, <1>11, <1>12

\* The trampolines and the closures' functions implement TrampPool: a closure
\* gets an entry point that no other one has, and that enters it until it is
\* given back.
THEOREM ImplementsTrampPool == ASSUME NativeRaw = FALSE PROVE Spec => PoolSpec
<1>1. Init => Promise!Init
  BY DEF Init, Promise!Init, Holds
<1>2. IInv /\ IInv' /\ [Next]_vars => [Promise!Next]_(Promise!vars)
  <2> SUFFICES ASSUME IInv, IInv', [Next]_vars PROVE [Promise!Next]_(Promise!vars)
    OBVIOUS
  <2>1. CASE UNCHANGED vars
    BY <2>1 DEF vars, Promise!vars, Holds
  <2> QED
    BY <2>1, StepImplements DEF Next
<1> QED
  BY <1>1, <1>2, Invariance, PTL DEF Spec, PoolSpec, Promise!Spec
=============================================================================
