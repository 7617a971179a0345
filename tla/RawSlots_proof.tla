--------------------------- MODULE RawSlots_proof ---------------------------
(***************************************************************************)
(* For any functions, integers and size of a byte: what TLC checks of      *)
(* RawSlots on two parameters and bytes of four values.  It holds where    *)
(* every type of the signatures fits into one slot, which is the case on   *)
(* 64-bit machines.                                                        *)
(*                                                                         *)
(* First the arithmetic of patterns that are cut short, then the two       *)
(* conversions of one value, then the positions: where every value takes   *)
(* one slot, the walk of raw_api.c and the index of node_ffi.cc meet.      *)
(***************************************************************************)
EXTENDS RawSlots, SequenceTheorems, WellFoundedInduction, TLAPS

\* Every value of the functions in use takes one slot.
Narrow ==
  \A s \in Signatures : /\ \A i \in DOMAIN s.params : Size(s.params[i]) <= WordBytes
                        /\ Size(s.result) <= WordBytes

Widths == {1, 2, 4, 8}

-----------------------------------------------------------------------------
(* Patterns.                                                               *)

\* Division with remainder.
LEMMA DivMod ==
  ASSUME NEW x \in Int, NEW a \in Nat \ {0}
  PROVE  x % a \in 0 .. a - 1 /\ x \div a \in Int /\ x = (a * (x \div a)) + (x % a)
<1>1. x % a \in 0 .. a - 1
  OBVIOUS
<1>2. x \div a \in Int
  OBVIOUS
<1>3. x = (a * (x \div a)) + (x % a)
  OBVIOUS
<1> QED
  BY <1>1, <1>2, <1>3

\* The remainder is unique.
LEMMA Remainder ==
  ASSUME NEW a \in Nat \ {0}, NEW q \in Int, NEW r \in 0 .. a - 1
  PROVE  ((a * q) + r) % a = r
OBVIOUS

\* Cutting a pattern in two steps is cutting it in one.
LEMMA CutTwice ==
  ASSUME NEW x \in Int, NEW a \in Nat \ {0}, NEW b \in Nat \ {0}, NEW c, c = a * b
  PROVE  (x % c) % a = x % a
<1> DEFINE q == x \div c
           y == x % c
           p == y \div a
<1>1. c \in Nat \ {0}
  OBVIOUS
<1>2. y \in 0 .. c - 1 /\ q \in Int /\ x = (c * q) + y
  BY <1>1, DivMod, Zenon
<1> HIDE DEF q, y
<1>3. y \in Int
  BY <1>1, <1>2
<1>4. y % a \in 0 .. a - 1 /\ p \in Int /\ y = (a * p) + (y % a)
  BY <1>3, DivMod, Zenon
<1> HIDE DEF p
<1>5. x = (a * ((b * q) + p)) + (y % a)
  BY <1>2, <1>4
<1>6. (b * q) + p \in Int
  BY <1>2, <1>4
<1>7. x % a = y % a
  BY <1>4, <1>5, <1>6, Remainder
<1> QED
  BY <1>7 DEF y

\* More bytes have a multiple of the values.
LEMMA ValuesFacts ==
  ASSUME NEW n \in Widths
  PROVE  /\ Values(n) \in Nat \ {0}
         /\ \A m \in Widths : n <= m => \E k \in Nat \ {0} : Values(m) = Values(n) * k
<1> DEFINE a == ByteValues
           b == Square(a)
           c == Square(b)
           d == Square(c)
<1>1. a \in Nat \ {0}
  BY RawAssumption
<1> HIDE DEF a
<1>2. b \in Nat \ {0} /\ b = a * a
  BY <1>1 DEF Square
<1> HIDE DEF b
<1>3. c \in Nat \ {0} /\ c = b * b
  BY <1>2 DEF Square
<1> HIDE DEF c
<1>4. d \in Nat \ {0} /\ d = c * c
  BY <1>3 DEF Square
<1> HIDE DEF d
<1>5. Values(1) = a /\ Values(2) = b /\ Values(4) = c /\ Values(8) = d
  BY DEF Values, a, b, c, d
<1>6. Values(n) \in Nat \ {0}
  BY <1>1, <1>2, <1>3, <1>4, <1>5 DEF Widths
<1>7. ASSUME NEW m \in Widths, n <= m
      PROVE  \E k \in Nat \ {0} : Values(m) = Values(n) * k
  <2>1. CASE n = m
    BY <1>6, <2>1
  <2>2. CASE n = 1 /\ m = 2
    BY <1>1, <1>2, <1>5, <2>2
  <2>3. CASE n = 1 /\ m = 4
    <3>1. c = a * (a * b) /\ a * b \in Nat \ {0}
      BY <1>1, <1>2, <1>3
    <3> QED
      BY <1>5, <2>3, <3>1
  <2>4. CASE n = 1 /\ m = 8
    <3>1. a * b \in Nat \ {0} /\ c = a * (a * b)
      BY <1>1, <1>2, <1>3
    <3>2. d = a * ((a * b) * c) /\ (a * b) * c \in Nat \ {0}
      BY <1>1, <1>3, <1>4, <3>1
    <3> QED
      BY <1>5, <2>4, <3>2
  <2>5. CASE n = 2 /\ m = 4
    BY <1>2, <1>3, <1>5, <2>5
  <2>6. CASE n = 2 /\ m = 8
    <3>1. d = b * (b * c) /\ b * c \in Nat \ {0}
      BY <1>2, <1>3, <1>4
    <3> QED
      BY <1>5, <2>6, <3>1
  <2>7. CASE n = 4 /\ m = 8
    BY <1>3, <1>4, <1>5, <2>7
  <2> QED
    BY <1>7, <2>1, <2>2, <2>3, <2>4, <2>5, <2>6, <2>7 DEF Widths
<1> QED
  BY <1>6, <1>7

\* A pattern and its lower bytes are the same to whom reads only those.
LEMMA CutWide ==
  ASSUME NEW x \in Int, NEW n \in Widths, NEW m \in Widths, n <= m
  PROVE  /\ x % Values(m) \in 0 .. Values(m) - 1
         /\ (x % Values(m)) % Values(n) = x % Values(n)
         /\ AsSigned(x % Values(m), n) = AsSigned(x, n)
<1>1. x % Values(m) \in 0 .. Values(m) - 1
  BY ValuesFacts, DivMod
<1>2. PICK k \in Nat \ {0} : Values(m) = Values(n) * k
  BY ValuesFacts
<1>3. (x % Values(m)) % Values(n) = x % Values(n)
  BY <1>2, ValuesFacts, CutTwice
<1> QED
  BY <1>1, <1>3 DEF AsSigned

\* More bytes have more values.
LEMMA ValuesGrow ==
  ASSUME NEW n \in Widths, NEW m \in Widths, n <= m
  PROVE  Values(n) <= Values(m)
<1>1. PICK k \in Nat \ {0} : Values(m) = Values(n) * k
  BY ValuesFacts
<1>2. Values(n) \in Nat \ {0}
  BY ValuesFacts
<1> DEFINE v == Values(n)
<1> HIDE DEF v
<1>3. v * k >= v
  BY <1>2 DEF v
<1> QED
  BY <1>1, <1>3 DEF v

\* What n bytes can hold as a signed number.
LEMMA SignedRange ==
  ASSUME NEW x \in Int, NEW n \in Widths
  PROVE  /\ AsSigned(x, n) \in Int
         /\ 0 - Values(n) <= 2 * AsSigned(x, n) /\ 2 * AsSigned(x, n) < Values(n)
<1> DEFINE v == Values(n)
           b == x % v
<1>1. v \in Nat \ {0}
  BY ValuesFacts
<1>2. AsSigned(x, n) = IF 2 * b < v THEN b ELSE b - v
  BY DEF AsSigned
<1> HIDE DEF v
<1>3. b \in 0 .. v - 1
  BY <1>1, DivMod
<1> HIDE DEF b
<1> QED
  BY <1>1, <1>2, <1>3 DEF v

\* A signed number that n bytes can hold is its own pattern's.
LEMMA SignedKeeps ==
  ASSUME NEW x \in Int, NEW n \in Widths, 0 - Values(n) <= 2 * x, 2 * x < Values(n)
  PROVE  AsSigned(x, n) = x
<1> DEFINE v == Values(n)
           b == x % v
<1>1. v \in Nat \ {0} /\ 0 - v <= 2 * x /\ 2 * x < v
  BY ValuesFacts
<1>2. AsSigned(x, n) = IF 2 * b < v THEN b ELSE b - v
  BY DEF AsSigned
<1> HIDE DEF v
<1>3. CASE x >= 0
  <2>1. x \in 0 .. v - 1 /\ x = (v * 0) + x
    BY <1>1, <1>3
  <2>2. b = x
    BY <1>1, <2>1, Remainder
  <2> QED
    BY <1>1, <1>2, <2>2
<1>4. CASE x < 0
  <2>1. x + v \in 0 .. v - 1 /\ x = (v * (-1)) + (x + v)
    BY <1>1, <1>4
  <2>2. b = x + v
    BY <1>1, <2>1, Remainder
  <2> HIDE DEF b
  <2>3. ~(2 * b < v) /\ b - v = x
    BY <1>1, <2>2
  <2> QED
    BY <1>2, <2>3
<1> QED
  BY <1>3, <1>4

\* An unsigned number that n bytes can hold is its own pattern's.
LEMMA UnsignedKeeps ==
  ASSUME NEW n \in Widths, NEW x \in 0 .. Values(n) - 1
  PROVE  x % Values(n) = x
<1> DEFINE v == Values(n)
<1>1. v \in Nat \ {0} /\ x \in 0 .. v - 1
  BY ValuesFacts
<1> HIDE DEF v
<1>2. x % v = x
  BY <1>1
<1> QED
  BY <1>2 DEF v

-----------------------------------------------------------------------------
(* One value.                                                              *)

\* A type has one of four widths, and a slot is wide enough for the types that
\* fit.
LEMMA SizeFacts ==
  ASSUME NEW t \in Types
  PROVE  /\ Size(t) \in Widths /\ WordBytes \in Widths
         /\ Size(t) <= WordBytes => Span(t) = 1
<1>1. Size(t) \in Widths /\ WordBytes \in Widths
  BY RawAssumption DEF Types, Unsigned, Signed, Size, Widths
<1>2. ASSUME Size(t) <= WordBytes PROVE Span(t) = 1
  BY <1>1, <1>2 DEF Span, Widths
<1> QED
  BY <1>1, <1>2

\* C sees the same number in a pattern and in the pattern cut to a word, or to
\* 64 bits and then to a word.
LEMMA WordKeeps ==
  ASSUME NEW t \in Types, Size(t) <= WordBytes, NEW x \in Int
  PROVE  /\ x % Values(WordBytes) \in 0 .. Values(WordBytes) - 1
         /\ x % Values(8) \in Int
         /\ CValue(t, x % Values(WordBytes)) = CValue(t, x)
         /\ CValue(t, (x % Values(8)) % Values(WordBytes)) = CValue(t, x)
<1>1. Size(t) \in Widths /\ WordBytes \in Widths /\ 8 \in Widths /\ WordBytes <= 8 /\ Size(t) <= 8
  BY SizeFacts DEF Widths
<1>2. \A y \in Int : /\ y % Values(WordBytes) \in 0 .. Values(WordBytes) - 1
                      /\ CValue(t, y % Values(WordBytes)) = CValue(t, y)
  BY <1>1, CutWide DEF CValue
<1>3. Values(8) \in Nat \ {0}
  BY <1>1, ValuesFacts
<1> DEFINE w == Values(8)
<1> HIDE DEF w
<1>4. x % w \in Int
  BY <1>3 DEF w
<1>5. CValue(t, x % Values(8)) = CValue(t, x)
  BY <1>1, CutWide DEF CValue
<1> QED
  BY <1>2, <1>4, <1>5 DEF w

\* The bits that readUInt64 and readInt64 may make of a value are an integer,
\* and its pattern where the conversion is defined.
LEMMA ReadFacts ==
  ASSUME NEW v \in JsValues, NEW t \in Types
  PROVE  /\ v.n \in Int
         /\ \A bits \in ReadUInt64(v) \cup ReadInt64(v) : bits \in Int
         /\ t \in Signed /\ Defined(t, v) => ReadInt64(v) = {v.n % Values(8)}
         /\ t \notin Signed /\ Defined(t, v) => ReadUInt64(v) = {v.n % Values(8)}
<1>1. v.n \in Int /\ v.kind \in {"number", "bigint", "boolean"}
  <2>1. Ints \cup {0, 1} \subseteq Int
    BY RawAssumption
  <2> QED
    BY <2>1 DEF JsValues
<1>2. Values(8) \in Nat \ {0}
  BY ValuesFacts DEF Widths
<1> DEFINE w == Values(8)
<1> HIDE DEF w
<1>3. v.n % w \in Int /\ w \div 2 \in Int /\ w - 1 \in Int /\ (w \div 2) - 1 \in Int
  BY <1>1, <1>2 DEF w
<1>4. \A bits \in ReadUInt64(v) : bits \in {v.n % w, 0, w - 1, w \div 2}
  BY DEF ReadUInt64, w
<1>5. \A bits \in ReadInt64(v) : bits \in {v.n % w, 0, w \div 2, (w \div 2) - 1}
  BY DEF ReadInt64, w
<1>6. \A bits \in ReadUInt64(v) \cup ReadInt64(v) : bits \in Int
  BY <1>3, <1>4, <1>5
<1>7. t \in Signed /\ Defined(t, v) => ReadInt64(v) = {v.n % Values(8)}
  BY DEF Defined, ReadInt64
<1>8. t \notin Signed /\ Defined(t, v) => ReadUInt64(v) = {v.n % Values(8)}
  BY DEF Defined, ReadUInt64
<1> QED
  BY <1>1, <1>6, <1>7, <1>8

\* readValue leaves a word in the slot, and in it the value as C converts it.
LEMMA ReadArrives ==
  ASSUME NEW v \in JsValues, NEW t \in Types \ {"void"}, Size(t) <= WordBytes,
         NEW old \in 0 .. Values(WordBytes) - 1, NEW slot \in ReadValue(t, v, old)
  PROVE  /\ slot \in 0 .. Values(WordBytes) - 1
         /\ Defined(t, v) => CValue(t, slot) = CValue(t, v.n)
<1> DEFINE word == 0 .. Values(WordBytes) - 1
<1>1. /\ v.n \in Int /\ WordBytes \in Widths /\ Values(WordBytes) \in Nat \ {0} /\ old \in Nat
      /\ 4 <= WordBytes /\ Values(4) \in Nat \ {0}
  <2>1. v.n \in Int
    BY ReadFacts
  <2>2. WordBytes \in Widths /\ 4 <= WordBytes
    BY RawAssumption DEF Widths
  <2>3. Values(WordBytes) \in Nat \ {0} /\ Values(4) \in Nat \ {0}
    BY <2>2, ValuesFacts DEF Widths
  <2> QED
    BY <2>1, <2>2, <2>3
<1>2. CASE t \in Signed
  <2>1. PICK bits \in ReadInt64(v) : slot = bits % Values(WordBytes)
    BY <1>2 DEF ReadValue, Signed
  <2>2. bits \in Int
    BY ReadFacts
  <2>3. Defined(t, v) => bits = v.n % Values(8)
    BY <1>2, ReadFacts
  <2> QED
    BY <1>1, <2>1, <2>2, <2>3, WordKeeps
<1>3. CASE t = "pointer"
  <2>1. slot = IF v.kind = "bigint" THEN v.n % Values(WordBytes) ELSE 0
    BY <1>3 DEF ReadValue, Signed
  <2>2. Defined(t, v) => v.kind = "bigint"
    BY <1>3 DEF Defined
  <2>3. 0 \in word
    BY <1>1
  <2> QED
    BY <1>1, <2>1, <2>2, <2>3, WordKeeps
<1>4. CASE t \in {"uint8", "uint16", "uint32", "uint64"}
  <2>1. PICK bits \in ReadUInt64(v) : slot = bits % Values(WordBytes)
    BY <1>4 DEF ReadValue, Signed
  <2>2. bits \in Int
    BY ReadFacts
  <2>3. Defined(t, v) => bits = v.n % Values(8)
    BY <1>4, ReadFacts DEF Signed
  <2> QED
    BY <1>1, <2>1, <2>2, <2>3, WordKeeps
<1>5. CASE t = "float"
  <2> DEFINE q == Values(4)
             w == Values(WordBytes)
             r == v.n % q
             low == IF v.kind = "boolean" THEN 0 ELSE r
             k == old \div q
  <2>1. slot = (old - (old % q)) + low
    BY <1>5 DEF ReadValue, Signed
  <2>2. Defined(t, v) => low = r
    BY <1>5 DEF Defined, Signed
  <2>3. CValue(t, slot) = slot % q /\ CValue(t, v.n) = r
    BY <1>5 DEF CValue, Signed, Size
  <2>4. PICK m \in Nat \ {0} : w = q * m
    BY <1>1, ValuesFacts DEF Widths
  <2>5. w \in Nat \ {0} /\ q \in Nat \ {0} /\ old \in 0 .. w - 1
    BY <1>1
  <2> HIDE DEF q, w
  <2>6. r \in 0 .. q - 1
    BY <1>1, <2>5, DivMod
  <2> HIDE DEF r
  <2>7. low \in 0 .. q - 1
    BY <2>5, <2>6
  <2> DEFINE o == old % q
  <2>8. o \in 0 .. q - 1 /\ k \in Int /\ old = (q * k) + o
    <3>1. old \in Int
      BY <1>1
    <3> QED
      BY <2>5, <3>1, DivMod, Zenon
  <2>9. slot = (old - o) + low
    BY <2>1
  <2> HIDE DEF low, k, o
  <2>10. slot = (q * k) + low
    <3>1. q * k \in Int
      BY <2>5, <2>8
    <3> DEFINE a == q * k
    <3> HIDE DEF a
    <3>2. slot = a + low
      BY <1>1, <2>7, <2>8, <2>9, <3>1 DEF a
    <3> QED
      BY <3>2 DEF a
  <2>11. slot % q = low
    BY <2>5, <2>7, <2>8, <2>10, Remainder
  <2>12. k \in Nat /\ k + 1 <= m
    BY <2>4, <2>5, <2>8
  <2>13. q * (k + 1) <= q * m
    BY <2>5, <2>12
  <2>14. slot \in 0 .. w - 1
    BY <2>4, <2>5, <2>7, <2>10, <2>12, <2>13
  <2> QED
    BY <2>2, <2>3, <2>11, <2>14 DEF w
<1> QED
  BY <1>2, <1>3, <1>4, <1>5 DEF Types, Unsigned

\* wrapValue finds in a widened slot the number that native code has.
LEMMA WrapArrives ==
  ASSUME NEW t \in Types \ {"void"}, Size(t) <= WordBytes, NEW c \in CValues(t)
  PROVE  /\ Words(t, c) = <<Widen(t, c)>>
         /\ WrapValue(t, Widen(t, c)) = SeenByJs(t, FromC(c))
<1>1. PICK x \in Int : c = CValue(t, x)
  BY RawAssumption DEF CValues
<1>2. WordBytes \in Widths /\ Size(t) \in Widths /\ 4 <= WordBytes
  BY SizeFacts, RawAssumption
<1>3. Words(t, c) = <<Widen(t, c)>>
  BY DEF Words
<1>4. CASE t \in Signed
  <2>1. c = AsSigned(x, Size(t))
    BY <1>1, <1>4 DEF CValue
  <2>2. c \in Int /\ \A m \in Widths : Size(t) <= m => AsSigned(c, m) = c
    <3>1. c \in Int /\ 0 - Values(Size(t)) <= 2 * c /\ 2 * c < Values(Size(t))
      BY <1>2, <2>1, SignedRange
    <3>2. ASSUME NEW m \in Widths, Size(t) <= m PROVE AsSigned(c, m) = c
      <4>1. Values(Size(t)) <= Values(m) /\ Values(Size(t)) \in Nat /\ Values(m) \in Nat
        BY <1>2, <3>2, ValuesGrow, ValuesFacts
      <4>2. 0 - Values(m) <= 2 * c /\ 2 * c < Values(m)
        BY <3>1, <4>1
      <4> QED
        BY <3>1, <4>2, SignedKeeps
    <3> QED
      BY <3>1, <3>2
  <2>3. \A m \in Widths : Size(t) <= m /\ m <= WordBytes => AsSigned(Widen(t, c), m) = c
    BY <1>2, <2>2, CutWide DEF Widen
  <2>4. CASE t = "sint64"
    <3>1. WordBytes = 8
      BY <1>2, <2>4, RawAssumption DEF Size
    <3> QED
      BY <1>2, <1>3, <2>3, <2>4, <3>1 DEF WrapValue, SeenByJs, FromC
  <2>5. CASE t # "sint64"
    <3>1. Size(t) <= 4 /\ 4 \in Widths /\ t \in {"sint8", "sint16", "sint32"}
      BY <1>4, <2>5 DEF Signed, Size, Widths
    <3>2. AsSigned(Widen(t, c), 4) = c
      BY <1>2, <2>3, <3>1
    <3> QED
      BY <1>3, <3>1, <3>2 DEF WrapValue, SeenByJs, FromC
  <2> QED
    BY <2>4, <2>5
<1>5. CASE t \notin Signed
  <2>1. c = x % Values(Size(t))
    BY <1>1, <1>5 DEF CValue
  <2>2. c \in 0 .. Values(Size(t)) - 1
    <3>1. Values(Size(t)) \in Nat \ {0} /\ x \in Int
      BY <1>2, ValuesFacts
    <3> QED
      BY <2>1, <3>1, DivMod
  <2>3. ASSUME NEW m \in Widths, Size(t) <= m PROVE c % Values(m) = c
    <3>1. Values(Size(t)) <= Values(m) /\ Values(Size(t)) \in Nat /\ Values(m) \in Nat
      BY <1>2, <2>3, ValuesGrow, ValuesFacts
    <3>2. c \in 0 .. Values(m) - 1
      BY <2>2, <3>1
    <3> QED
      BY <3>2, UnsignedKeeps
  <2>4. Widen(t, c) = c
    BY <1>2, <2>3 DEF Widen
  <2>5. CASE t \in {"uint64", "pointer"}
    BY <1>3, <2>4, <2>5 DEF WrapValue, SeenByJs, FromC
  <2>6. CASE t \notin {"uint64", "pointer"}
    <3>1. Size(t) <= 4 /\ 4 \in Widths /\ t \in {"uint8", "uint16", "uint32", "float"}
      BY <1>5, <2>6 DEF Types, Unsigned, Size, Widths
    <3>2. c % Values(4) = c
      BY <2>3, <3>1
    <3> QED
      BY <1>3, <2>4, <3>1, <3>2 DEF WrapValue, SeenByJs, FromC
  <2> QED
    BY <2>5, <2>6
<1> QED
  BY <1>3, <1>4, <1>5

-----------------------------------------------------------------------------
(* All values.                                                             *)

\* A set of natural numbers has a smallest member.
LEMMA Smallest ==
  ASSUME NEW S \in SUBSET Nat, S # {}
  PROVE  \E m \in S : \A n \in S : m <= n
<1>1. OpToRel(<, Nat) = {ss \in Nat \X Nat : ss[1] < ss[2]}
  BY Zenon DEF OpToRel
<1>2. PICK m \in S : \A n \in S : <<n, m>> \notin {ss \in Nat \X Nat : ss[1] < ss[2]}
  BY <1>1, NatLessThanWellFounded, WFMin
<1>3. ASSUME NEW n \in S PROVE m <= n
  <2>1. <<n, m>> \in Nat \X Nat /\ <<n, m>>[1] = n /\ <<n, m>>[2] = m
    OBVIOUS
  <2>2. ~(n < m)
    BY <1>2, <2>1, Zenon
  <2> QED
    BY <2>2
<1> QED
  BY <1>3

\* The walk by sizes finds the i-th value in the i-th slot.
LEMMA StartIs ==
  ASSUME NEW types \in Seq(Types), \A i \in 1 .. Len(types) : Size(types[i]) <= WordBytes
  PROVE  \A i \in 1 .. Len(types) : Start(types)[i] = i
<1> DEFINE n == Len(types)
           D == 1 .. n + 1
           Step(f) == [i \in D |-> IF i = 1 THEN 1 ELSE f[i - 1] + Span(types[i - 1])]
           s == Start(types)
<1>1. n \in Nat /\ \A i \in 1 .. n : types[i] \in Types
  BY ElementOfSeq, LenProperties
<1>2. \A i \in 1 .. n : Span(types[i]) = 1
  BY <1>1, SizeFacts
<1>3. s = CHOOSE f : f = Step(f)
  BY DEF Start
<1> HIDE DEF n, s
<1>4. \E f : f = Step(f)
  <2> DEFINE id == [i \in D |-> i]
  <2>1. ASSUME NEW i \in D PROVE id[i] = IF i = 1 THEN 1 ELSE id[i - 1] + Span(types[i - 1])
    <3>1. CASE i = 1
      BY <3>1
    <3>2. CASE i # 1
      <4>1. i - 1 \in 1 .. n /\ i - 1 \in D /\ i \in Nat
        BY <1>1, <3>2
      <4>2. id[i - 1] = i - 1 /\ Span(types[i - 1]) = 1
        BY <1>2, <4>1
      <4> QED
        BY <3>2, <4>1, <4>2
    <3> QED
      BY <3>1, <3>2
  <2>2. id = Step(id)
    BY <2>1
  <2> QED
    BY <2>2
<1>5. s = Step(s)
  BY <1>3, <1>4
<1>6. ASSUME NEW i \in D PROVE s[i] = IF i = 1 THEN 1 ELSE s[i - 1] + Span(types[i - 1])
  BY <1>5
<1> DEFINE Bad == {i \in D : s[i] # i}
<1>7. Bad = {}
  <2> SUFFICES ASSUME Bad # {} PROVE FALSE
    OBVIOUS
  <2>1. Bad \in SUBSET Nat
    BY <1>1
  <2> HIDE DEF Bad
  <2>2. PICK i \in Bad : \A j \in Bad : i <= j
    BY <2>1, Smallest
  <2>3. i \in D /\ s[i] # i
    BY DEF Bad
  <2>4. i # 1
    BY <1>6, <2>3
  <2>5. i - 1 \in D /\ i - 1 \in 1 .. n /\ i \in Nat /\ ~(i <= i - 1)
    BY <1>1, <2>3, <2>4
  <2>6. s[i - 1] = i - 1
    BY <2>2, <2>5 DEF Bad
  <2> QED
    BY <1>2, <1>6, <2>3, <2>4, <2>5, <2>6
<1> QED
  BY <1>1, <1>7 DEF n, s

\* One word per value gives the words in their order.
LEMMA FlattenSingles ==
  ASSUME NEW S, NEW n \in Nat, NEW e \in [1 .. n -> S]
  PROVE  FlattenSeq([i \in 1 .. n |-> <<e[i]>>]) = e
<1> DEFINE q == [i \in 1 .. n |-> <<e[i]>>]
           Part(i) == [j \in 1 .. i |-> e[j]]
           Step(f) == [i \in 1 .. n |-> IF i = 1 THEN q[i] ELSE f[i - 1] \o q[i]]
           w == CHOOSE f : f = Step(f)
<1>1. q \in Seq(Seq(S)) /\ Len(q) = n
  OBVIOUS
<1>2. CASE n = 0
  BY <1>1, <1>2 DEF FlattenSeq
<1>3. CASE n # 0
  <2>1. FlattenSeq(q) = w[n]
    BY <1>1, <1>3 DEF FlattenSeq
  <2>2. ASSUME NEW i \in 1 .. n
        PROVE  IF i = 1 THEN Part(i) = q[i] ELSE Part(i) = Part(i - 1) \o q[i]
    <3>1. q[i] = <<e[i]>> /\ e[i] \in S
      OBVIOUS
    <3>2. CASE i = 1
      BY <3>1, <3>2
    <3>3. CASE i # 1
      <4>1. i - 1 \in Nat /\ Part(i - 1) \in Seq(S) /\ Len(Part(i - 1)) = i - 1
        BY <3>3
      <4>2. Part(i) \in Seq(S) /\ Len(Part(i)) = i
        OBVIOUS
      <4> QED
        BY <3>1, <3>3, <4>1, <4>2
    <3> QED
      BY <3>2, <3>3
  <2>3. w = Step(w)
    <3> DEFINE f == [i \in 1 .. n |-> Part(i)]
    <3>1. ASSUME NEW i \in 1 .. n PROVE f[i] = IF i = 1 THEN q[i] ELSE f[i - 1] \o q[i]
      <4>1. i # 1 => i - 1 \in 1 .. n
        OBVIOUS
      <4> QED
        BY <2>2, <4>1
    <3>2. f = Step(f)
      BY <3>1
    <3> QED
      BY <3>2
  <2> HIDE DEF w, q, Part
  <2>4. \A i \in 1 .. n : w[i] = IF i = 1 THEN q[i] ELSE w[i - 1] \o q[i]
    BY <2>3
  <2> DEFINE Bad == {i \in 1 .. n : w[i] # Part(i)}
  <2>5. Bad = {}
    <3> SUFFICES ASSUME Bad # {} PROVE FALSE
      OBVIOUS
    <3>1. Bad \in SUBSET Nat
      OBVIOUS
    <3> HIDE DEF Bad
    <3>2. PICK i \in Bad : \A j \in Bad : i <= j
      BY <3>1, Smallest
    <3>3. i \in 1 .. n /\ w[i] # Part(i)
      BY DEF Bad
    <3>4. i # 1
      BY <2>2, <2>4, <3>3
    <3>5. i - 1 \in 1 .. n /\ ~(i <= i - 1)
      BY <3>3, <3>4
    <3>6. w[i - 1] = Part(i - 1)
      BY <3>2, <3>5 DEF Bad
    <3> QED
      BY <2>2, <2>4, <3>3, <3>4, <3>6
  <2>6. w[n] = Part(n)
    BY <1>3, <2>5
  <2>7. Part(n) = e
    BY DEF Part
  <2> QED
    BY <2>1, <2>6, <2>7 DEF q
<1> QED
  BY <1>2, <1>3

\* Where types fit, every value has its own slot and nothing else.
LEMMA Slots ==
  ASSUME Narrow, sig \in Signatures
  PROVE  /\ DOMAIN sig.params = 1 .. Len(sig.params) /\ Len(sig.params) \in Nat
         /\ \A i \in DOMAIN sig.params :
              /\ sig.params[i] \in Types \ {"void"} /\ Size(sig.params[i]) <= WordBytes
              /\ Span(sig.params[i]) = 1 /\ Start(sig.params)[i] = i
         /\ sig.result \in Types /\ Size(sig.result) <= WordBytes /\ Span(sig.result) = 1
<1>1. sig.params \in Seq(Types \ {"void"}) /\ sig.result \in Types
  BY RawAssumption
<1>2. DOMAIN sig.params = 1 .. Len(sig.params) /\ Len(sig.params) \in Nat
  BY <1>1, LenProperties
<1>3. \A i \in DOMAIN sig.params : sig.params[i] \in Types \ {"void"}
  BY <1>1, <1>2, ElementOfSeq
<1>4. /\ \A i \in DOMAIN sig.params : Size(sig.params[i]) <= WordBytes
      /\ Size(sig.result) <= WordBytes
  BY DEF Narrow
<1>5. sig.params \in Seq(Types)
  BY <1>1
<1>6. \A i \in DOMAIN sig.params : Start(sig.params)[i] = i
  BY <1>2, <1>4, <1>5, StartIs
<1> QED
  BY <1>1, <1>2, <1>3, <1>4, <1>6, SizeFacts

\* What C loads from the slot of a value that fits.
LEMMA LoadOne ==
  ASSUME NEW t, Span(t) = 1, NEW mem, NEW i \in Nat, i <= Len(mem), Len(mem) \in Nat
  PROVE  Load(t, mem, i) = FromC(CValue(t, mem[i]))
BY DEF Load, FromC

\* Calls: the slots hold words, and the native function's arguments are the
\* program's.
LEMMA CallInvokerArrives ==
  ASSUME Narrow, TypeOK, NEW vs \in [DOMAIN sig.params -> JsValues], CallInvoker(vs)
  PROVE  TypeOK' /\ ArgumentsArrive' /\ ResultsArrive'
<1>1. sig \in Signatures
  BY DEF TypeOK
<1> DEFINE ts == sig.params
           n == Len(ts)
<1>2. DOMAIN ts = 1 .. n /\ n \in Nat
  BY <1>1, Slots
<1>3. PICK d \in [DOMAIN ts -> UNION {ReadValue(ts[i], vs[i], datas[i]) : i \in DOMAIN ts}] :
        /\ \A i \in DOMAIN ts : d[i] \in ReadValue(ts[i], vs[i], datas[i])
        /\ datas' = d
        /\ got' = RawToArgs(ts, d)
  BY DEF CallInvoker
<1>4. sent' = vs /\ phase' = "call" /\ sig' = sig
  BY DEF CallInvoker
<1>5. ASSUME NEW i \in DOMAIN ts
      PROVE  /\ d[i] \in 0 .. Values(WordBytes) - 1
             /\ Defined(ts[i], vs[i]) => CValue(ts[i], d[i]) = CValue(ts[i], vs[i].n)
  <2>1. /\ vs[i] \in JsValues /\ ts[i] \in Types \ {"void"} /\ Size(ts[i]) <= WordBytes
        /\ datas[i] \in 0 .. Values(WordBytes) - 1
        /\ d[i] \in ReadValue(ts[i], vs[i], datas[i])
    BY <1>1, <1>3, Slots DEF TypeOK
  <2> QED
    BY <2>1, ReadArrives
<1>6. datas' \in [DOMAIN ts -> 0 .. Values(WordBytes) - 1]
  BY <1>3, <1>5
<1>7. TypeOK'
  BY <1>1, <1>4, <1>6 DEF TypeOK
<1>8. ASSUME NEW i \in DOMAIN ts, Defined(ts[i], vs[i])
      PROVE  got'[i] = SeenByC(ts[i], vs[i])
  <2>1. Len(d) = n
    BY <1>2, <1>3
  <2>2. got'[i] = Load(ts[i], d, Start(ts)[i])
    BY <1>2, <1>3 DEF RawToArgs
  <2>3. Start(ts)[i] = i /\ Span(ts[i]) = 1 /\ i \in Nat /\ i <= n
    BY <1>1, <1>2, Slots
  <2>4. got'[i] = FromC(CValue(ts[i], d[i]))
    BY <1>2, <2>1, <2>2, <2>3, LoadOne
  <2> QED
    BY <1>5, <1>8, <2>4 DEF SeenByC
<1>9. ArgumentsArrive'
  BY <1>4, <1>7, <1>8 DEF ArgumentsArrive
<1>10. ResultsArrive'
  BY <1>4 DEF ResultsArrive
<1> QED
  BY <1>7, <1>9, <1>10

\* Callbacks: the program sees native code's arguments.
LEMMA DoCallbackArrives ==
  ASSUME Narrow, TypeOK, NEW ns \in [DOMAIN sig.params -> UNION {CValues(t) : t \in Types}],
         \A i \in DOMAIN ns : ns[i] \in CValues(sig.params[i]), DoCallback(ns)
  PROVE  TypeOK' /\ ArgumentsArrive' /\ ResultsArrive'
<1>1. sig \in Signatures
  BY DEF TypeOK
<1> DEFINE ts == sig.params
           n == Len(ts)
           raw == ArgsToRaw(ts, ns)
           wide == [i \in 1 .. n |-> Widen(ts[i], ns[i])]
<1>2. DOMAIN ts = 1 .. n /\ n \in Nat /\ DOMAIN ns = DOMAIN ts
  BY <1>1, Slots
<1>3. /\ sent' = [i \in DOMAIN ns |-> FromC(ns[i])]
      /\ got' = [i \in DOMAIN ns |-> WrapValue(ts[i], raw[i])]
      /\ phase' = "callback" /\ sig' = sig /\ datas' = datas
  BY DEF DoCallback
<1>4. ASSUME NEW i \in DOMAIN ts
      PROVE  /\ Words(ts[i], ns[i]) = <<wide[i]>>
             /\ WrapValue(ts[i], wide[i]) = SeenByJs(ts[i], FromC(ns[i]))
  <2>1. /\ ts[i] \in Types \ {"void"} /\ Size(ts[i]) <= WordBytes
        /\ ns[i] \in CValues(ts[i]) /\ wide[i] = Widen(ts[i], ns[i])
    BY <1>1, <1>2, Slots
  <2> QED
    BY <2>1, WrapArrives
<1>5. raw = wide
  <2>1. [i \in DOMAIN ts |-> Words(ts[i], ns[i])] = [i \in 1 .. n |-> <<wide[i]>>]
    BY <1>2, <1>4
  <2>2. wide \in [1 .. n -> {wide[i] : i \in 1 .. n}]
    OBVIOUS
  <2> HIDE DEF n, wide
  <2>3. FlattenSeq([i \in 1 .. n |-> <<wide[i]>>]) = wide
    BY <1>2, <2>2, FlattenSingles
  <2> QED
    BY <2>1, <2>3 DEF ArgsToRaw
<1>6. TypeOK'
  BY <1>3 DEF TypeOK
<1>7. ASSUME NEW i \in DOMAIN ts PROVE got'[i] = SeenByJs(ts[i], sent'[i])
  <2> HIDE DEF raw, wide
  <2> QED
    BY <1>2, <1>3, <1>4, <1>5
<1>8. ArgumentsArrive'
  BY <1>3, <1>6, <1>7 DEF ArgumentsArrive
<1>9. ResultsArrive'
  BY <1>3 DEF ResultsArrive
<1> QED
  BY <1>6, <1>8, <1>9

\* Results: of a callback and of a native function.
LEMMA ResultArrives ==
  ASSUME Narrow, TypeOK,
         \/ \E v \in JsValues : CallbackReturn(v)
         \/ \E c \in CValues(sig.result) : NativeReturn(c)
  PROVE  TypeOK' /\ ArgumentsArrive' /\ ResultsArrive'
<1>1. sig \in Signatures
  BY DEF TypeOK
<1> DEFINE t == sig.result
<1>2. t \in Types /\ Size(t) <= WordBytes /\ Span(t) = 1
  BY <1>1, Slots
<1>3. ASSUME NEW v \in JsValues, CallbackReturn(v)
      PROVE  TypeOK' /\ ArgumentsArrive' /\ ResultsArrive'
  <2>1. PICK slot \in ReadValue(t, v, 0) : got' = <<Load(t, <<slot>>, 1)>>
    BY <1>3 DEF CallbackReturn
  <2>2. sent' = <<v>> /\ phase' = "callbackResult" /\ sig' = sig /\ datas' = datas
    BY <1>3 DEF CallbackReturn
  <2>3. got'[1] = FromC(CValue(t, slot))
    <3> DEFINE mem == <<slot>>
    <3>1. Len(mem) = 1 /\ mem[1] = slot
      OBVIOUS
    <3> HIDE DEF mem
    <3>2. Load(t, mem, 1) = FromC(CValue(t, mem[1]))
      BY <1>2, <3>1, LoadOne
    <3> QED
      BY <2>1, <3>1, <3>2 DEF mem
  <2>4. 0 \in 0 .. Values(WordBytes) - 1
    <3>1. Values(WordBytes) \in Nat \ {0}
      BY <1>2, SizeFacts, ValuesFacts
    <3> QED
      BY <3>1
  <2>5. t # "void" /\ Defined(t, v) => got'[1] = SeenByC(t, v)
    BY <1>2, <2>3, <2>4, ReadArrives DEF SeenByC
  <2>6. TypeOK'
    BY <2>2 DEF TypeOK
  <2> QED
    BY <2>2, <2>5, <2>6 DEF ArgumentsArrive, ResultsArrive
<1>4. ASSUME NEW c \in CValues(t), NativeReturn(c)
      PROVE  TypeOK' /\ ArgumentsArrive' /\ ResultsArrive'
  <2> DEFINE raw == Words(t, c)
  <2>1. /\ sent' = <<FromC(c)>> /\ phase' = "result" /\ sig' = sig /\ datas' = datas
        /\ got' = <<IF Len(raw) > 1 THEN Beyond ELSE WrapValue(t, raw[1])>>
    BY <1>4 DEF NativeReturn
  <2>2. ASSUME t # "void" PROVE got'[1] = SeenByJs(t, FromC(c))
    <3>1. raw = <<Widen(t, c)>> /\ WrapValue(t, Widen(t, c)) = SeenByJs(t, FromC(c))
      BY <1>2, <2>2, WrapArrives
    <3>2. Len(raw) = 1 /\ raw[1] = Widen(t, c)
      BY <3>1
    <3> QED
      BY <2>1, <3>1, <3>2
  <2>3. TypeOK'
    BY <2>1 DEF TypeOK
  <2> QED
    BY <2>1, <2>2, <2>3 DEF ArgumentsArrive, ResultsArrive
<1> QED
  BY <1>3, <1>4

-----------------------------------------------------------------------------
(* The theorems.                                                           *)

\* The inductive invariant: the slots hold words, and what was received last
\* is what was sent.
THEOREM Invariance ==
  ASSUME Narrow
  PROVE  Spec => [](TypeOK /\ ArgumentsArrive /\ ResultsArrive)
<1> DEFINE IInv == TypeOK /\ ArgumentsArrive /\ ResultsArrive
<1>1. Init => IInv
  <2> SUFFICES ASSUME Init PROVE IInv
    OBVIOUS
  <2>1. Values(WordBytes) \in Nat \ {0}
    BY RawAssumption, ValuesFacts DEF Widths
  <2>2. TypeOK
    BY <2>1 DEF Init, TypeOK
  <2> QED
    BY <2>2 DEF Init, ArgumentsArrive, ResultsArrive
<1>2. IInv /\ [Next]_vars => IInv'
  <2> SUFFICES ASSUME IInv, [Next]_vars PROVE IInv'
    OBVIOUS
  <2>1. ASSUME NEW vs \in [DOMAIN sig.params -> JsValues], CallInvoker(vs) PROVE IInv'
    BY <2>1, CallInvokerArrives
  <2>2. ASSUME NEW ns \in [DOMAIN sig.params -> UNION {CValues(t) : t \in Types}],
               \A i \in DOMAIN ns : ns[i] \in CValues(sig.params[i]), DoCallback(ns)
        PROVE  IInv'
    BY <2>2, DoCallbackArrives
  <2>3. ASSUME \/ \E v \in JsValues : CallbackReturn(v)
               \/ \E c \in CValues(sig.result) : NativeReturn(c)
        PROVE  IInv'
    BY <2>3, ResultArrives
  <2>4. CASE UNCHANGED vars
    BY <2>4 DEF vars, TypeOK, ArgumentsArrive, ResultsArrive
  <2> QED
    BY <2>1, <2>2, <2>3, <2>4 DEF Next
<1> QED
  BY <1>1, <1>2, PTL DEF Spec

\* Every argument reaches its own parameter as C converts it, for any number
\* of parameters of any types that fit into a slot, whatever the slots held
\* before, in calls of native functions (setParam, ffi_raw_to_ptrarray) and of
\* callbacks (ffi_ptrarray_to_raw, doCallback).
THEOREM ArgumentsAlwaysArrive ==
  ASSUME Narrow
  PROVE  Spec => []ArgumentsArrive
BY Invariance, PTL

\* The results of callbacks (readValue on the closure's result) and of native
\* functions (wrapValue on the slot of doInvoke) arrive, too.
THEOREM ResultsAlwaysArrive ==
  ASSUME Narrow
  PROVE  Spec => []ResultsArrive
BY Invariance, PTL

\* On 64-bit machines every type fits, so that both hold for all signatures.
THEOREM WideMachines ==
  ASSUME WordBytes = 8
  PROVE  Spec => []ArgumentsArrive /\ []ResultsArrive
<1>1. Narrow
  <2>1. \A t \in Types : Size(t) <= 8
    BY SizeFacts DEF Widths
  <2> SUFFICES ASSUME NEW s \in Signatures
               PROVE  /\ \A i \in DOMAIN s.params : Size(s.params[i]) <= WordBytes
                      /\ Size(s.result) <= WordBytes
    BY DEF Narrow
  <2>2. s.params \in Seq(Types \ {"void"}) /\ s.result \in Types
    BY RawAssumption
  <2>3. \A i \in DOMAIN s.params : s.params[i] \in Types
    BY <2>2, ElementOfSeq, LenProperties
  <2> QED
    BY <2>1, <2>2, <2>3
<1> QED
  BY <1>1, Invariance, PTL
=============================================================================
