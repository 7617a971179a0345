------------------------------ MODULE RawSlots ------------------------------
(***************************************************************************)
(* How values cross the border: readValue and wrapValue of node_ffi.cc on  *)
(* one ffi_raw slot per value, and the raw calls of raw_api.c, which walk  *)
(* the same slots by the sizes of the types.                               *)
(*                                                                         *)
(* A byte has ByteValues values here, so that TLC's integers hold 8 of     *)
(* them; a slot has WordBytes bytes (sizeof(ffi_raw)), the least           *)
(* significant first.  Numbers are mathematical integers: JavaScript       *)
(* numbers that are not integers, and rounding, are left out; a float is a *)
(* 4-byte pattern.                                                         *)
(***************************************************************************)
EXTENDS Integers, Sequences, SequencesExt

CONSTANTS
  ByteValues,  \* how many values a byte has: 256, lowered for the checks
  WordBytes,   \* 8 on 64-bit machines, 4 on 32-bit ones
  Signatures,  \* parameter types and result type of the functions in use
  Ints         \* integers that programs pass

VARIABLES
  sig,    \* the signature of the FFIInvoker and of the FFICallback
  datas,  \* the invoker's slots
  phase,  \* who got values last
  sent,   \* the values as their sender had them
  got     \* the values as their receiver has them

vars == <<sig, datas, phase, sent, got>>

Unsigned == {"uint8", "uint16", "uint32", "uint64", "pointer"}
Signed == {"sint8", "sint16", "sint32", "sint64"}
Types == Unsigned \cup Signed \cup {"float", "void"}

ASSUME RawAssumption ==
  /\ ByteValues \in Nat \ {0, 1} /\ WordBytes \in {4, 8} /\ Ints \subseteq Int
  /\ \A s \in Signatures : /\ s.params \in Seq(Types \ {"void"})
                           /\ s.result \in Types

Size(t) == CASE t \in {"uint8", "sint8", "void"} -> 1
             [] t \in {"uint16", "sint16"} -> 2
             [] t \in {"uint32", "sint32", "float"} -> 4
             [] t \in {"uint64", "sint64"} -> 8
             [] t = "pointer" -> WordBytes

Square(n) == n * n

\* The number of values that 1, 2, 4 or 8 bytes can have.
Values(n) == CASE n = 1 -> ByteValues
               [] n = 2 -> Square(ByteValues)
               [] n = 4 -> Square(Square(ByteValues))
               [] n = 8 -> Square(Square(Square(ByteValues)))

\* The pattern of n bytes, read as a two's complement number.
AsSigned(bits, n) ==
  LET b == bits % Values(n) IN IF 2 * b < Values(n) THEN b ELSE b - Values(n)

\* What C makes of a pattern in type t.
CValue(t, bits) ==
  IF t \in Signed THEN AsSigned(bits, Size(t)) ELSE bits % Values(Size(t))

-----------------------------------------------------------------------------
(* node_ffi.cc.  A JavaScript value is a number, a BigInt or a boolean.    *)

Number(n) == [kind |-> "number", n |-> n]
BigInt(n) == [kind |-> "bigint", n |-> n]

IsInt32(v) == v.kind = "number" /\ AsSigned(v.n, 4) = v.n
IsUint32(v) == v.kind = "number" /\ v.n % Values(4) = v.n

\* readUInt64 and readInt64: the 64 bits of the result.  Converting a double
\* that does not fit is undefined in C++: wrapped, zero or saturated.
ReadUInt64(v) ==
  IF v.kind = "boolean" THEN {0}
  ELSE IF v.kind = "bigint" \/ IsInt32(v) \/ v.n \in 0 .. Values(8) - 1
  THEN {v.n % Values(8)}
  ELSE {v.n % Values(8), 0, Values(8) - 1, Values(8) \div 2}

ReadInt64(v) ==
  IF v.kind = "boolean" THEN {0}
  ELSE IF v.kind = "bigint" \/ IsUint32(v) \/ AsSigned(v.n, 8) = v.n
  THEN {v.n % Values(8)}
  ELSE {v.n % Values(8), Values(8) \div 2, Values(8) \div 2 - 1}

\* Mutant: BigInts are for 64-bit types only.
ReadNumbersOnly(t, v, old) ==
  IF v.kind = "bigint" THEN {0}
  ELSE {bits % Values(WordBytes) : bits \in ReadUInt64(v)}

\* readValue: the possible contents of a slot that contained old.
ReadValue(t, v, old) ==
  CASE t = "void" -> {0}
    [] t = "float" -> {(old - (old % Values(4))) +
                       (IF v.kind = "boolean" THEN 0 ELSE v.n % Values(4))}
    [] t \in Signed -> {bits % Values(WordBytes) : bits \in ReadInt64(v)}
    [] t = "pointer" -> {IF v.kind = "bigint" THEN v.n % Values(WordBytes) ELSE 0}
    [] OTHER -> {bits % Values(WordBytes) : bits \in ReadUInt64(v)}

\* wrapValue: the value in a slot.
WrapValue(t, slot) ==
  CASE t = "void" -> Number(0)
    [] t \in {"uint8", "uint16", "uint32", "float"} -> Number(slot % Values(4))
    [] t \in {"sint8", "sint16", "sint32"} -> Number(AsSigned(slot, 4))
    [] t = "sint64" -> BigInt(AsSigned(slot, WordBytes))
    [] t \in {"uint64", "pointer"} -> BigInt(slot)

-----------------------------------------------------------------------------
(* raw_api.c.                                                              *)

\* The slots a value of type t takes.
Span(t) == (Size(t) + WordBytes - 1) \div WordBytes

\* The first slot of each value, and the slots of all of them.
Start(types) ==
  LET start[i \in 1 .. Len(types) + 1] ==
        IF i = 1 THEN 1 ELSE start[i - 1] + Span(types[i - 1])
  IN  start

\* Memory that the caller never wrote.
Beyond == [kind |-> "beyond", n |-> 0]

\* What C reads as type t from slot i on.
Load(t, mem, i) ==
  LET bits == IF Span(t) = 1 THEN mem[i]
              ELSE mem[i] + mem[i + 1] * Values(WordBytes)
  IN  IF i + Span(t) - 1 > Len(mem) THEN Beyond
      ELSE [kind |-> "c", n |-> CValue(t, bits)]

\* ffi_raw_to_ptrarray and ffi_call: the arguments of the native function.
RawToArgs(types, mem) ==
  [i \in 1 .. Len(types) |-> Load(types[i], mem, Start(types)[i])]

\* Mutant: small values are copied, not widened.
Copy(t, n) == n % Values(Size(t))

\* The contents of the slot of a small value.
Widen(t, n) == n % Values(WordBytes)

\* ffi_ptrarray_to_raw, on one value: the words it writes.
Words(t, n) ==
  IF Size(t) <= WordBytes THEN <<Widen(t, n)>>
  ELSE LET bits == n % Values(8)
       IN <<bits % Values(WordBytes), bits \div Values(WordBytes)>>

ArgsToRaw(types, ns) == FlattenSeq([i \in DOMAIN types |-> Words(types[i], ns[i])])

-----------------------------------------------------------------------------
(* One invoker and one callback of the same signature, called in turn.     *)

JsValues == [kind : {"number", "bigint"}, n : Ints] \cup
            [kind : {"boolean"}, n : {0, 1}]
CValues(t) == {CValue(t, n) : n \in Ints}
FromC(n) == [kind |-> "c", n |-> n]

Init ==
  /\ sig \in Signatures
  /\ datas = [i \in DOMAIN sig.params |-> 0]
  /\ phase = "idle"
  /\ sent = <<>> /\ got = <<>>

\* CallInvoker: setParam for every argument, then ffi_raw_call.
CallInvoker(vs) ==
  LET ts == sig.params
      slot(i) == ReadValue(ts[i], vs[i], datas[i])
  IN /\ phase \in {"idle", "result"}
     /\ \E d \in [DOMAIN ts -> UNION {slot(i) : i \in DOMAIN ts}] :
          /\ \A i \in DOMAIN ts : d[i] \in slot(i)
          /\ datas' = d
          /\ got' = RawToArgs(ts, d)
     /\ sent' = vs
     /\ phase' = "call"
     /\ UNCHANGED sig

\* Native code calls the callback: ffi_translate_args, then doCallback, which
\* takes the i-th slot for the i-th parameter.
DoCallback(ns) ==
  LET raw == ArgsToRaw(sig.params, ns) IN
  /\ phase = "call"
  /\ sent' = [i \in DOMAIN ns |-> FromC(ns[i])]
  /\ got' = [i \in DOMAIN ns |-> WrapValue(sig.params[i], raw[i])]
  /\ phase' = "callback"
  /\ UNCHANGED <<sig, datas>>

\* The callback returns: readValue(0, ...) fills one slot.
CallbackReturn(v) ==
  /\ phase = "callback"
  /\ sent' = <<v>>
  /\ \E slot \in ReadValue(sig.result, v, 0) : got' = <<Load(sig.result, <<slot>>, 1)>>
  /\ phase' = "callbackResult"
  /\ UNCHANGED <<sig, datas>>

\* The native function returns: ffi_call_unix64 stores the result as wide as a
\* slot (but for the upper half of a float's, which nobody reads), and doInvoke
\* has one slot for it.
NativeReturn(n) ==
  LET raw == Words(sig.result, n) IN
  /\ phase \in {"call", "callbackResult"}
  /\ sent' = <<FromC(n)>>
  /\ got' = <<IF Len(raw) > 1 THEN Beyond ELSE WrapValue(sig.result, raw[1])>>
  /\ phase' = "result"
  /\ UNCHANGED <<sig, datas>>

Next ==
  \/ \E vs \in [DOMAIN sig.params -> JsValues] : CallInvoker(vs)
  \/ \E ns \in [DOMAIN sig.params -> UNION {CValues(t) : t \in Types}] :
       /\ \A i \in DOMAIN ns : ns[i] \in CValues(sig.params[i])
       /\ DoCallback(ns)
  \/ \E v \in JsValues : CallbackReturn(v)
  \/ \E n \in CValues(sig.result) : NativeReturn(n)

Spec == Init /\ [][Next]_vars

-----------------------------------------------------------------------------
(* What the border promises.                                               *)

TypeOK ==
  /\ sig \in Signatures
  /\ datas \in [DOMAIN sig.params -> 0 .. Values(WordBytes) - 1]
  /\ phase \in {"idle", "call", "callback", "callbackResult", "result"}

\* The conversion of v to type t is defined: a BigInt, or a number that the
\* 64-bit integer of that signedness can hold.
Defined(t, v) ==
  \/ v.kind = "bigint"
  \/ /\ v.kind = "number" /\ t # "pointer"
     /\ IF t \in Signed THEN AsSigned(v.n, 8) = v.n
        ELSE IsInt32(v) \/ v.n \in 0 .. Values(8) - 1

\* What native code should see of a JavaScript value, and the other way.
SeenByC(t, v) == FromC(CValue(t, v.n))
SeenByJs(t, c) ==
  IF t \in {"uint64", "sint64", "pointer"} THEN BigInt(c.n) ELSE Number(c.n)

\* Every argument reaches its own parameter, converted as C converts it: of a
\* native function (setParam, ffi_raw_to_ptrarray) and of a callback
\* (ffi_ptrarray_to_raw, doCallback), whatever types come before it; slots
\* hold words.
ArgumentsArrive ==
  /\ TypeOK
  /\ \A i \in DOMAIN sig.params :
       LET t == sig.params[i] IN
       /\ phase = "call" /\ Defined(t, sent[i]) => got[i] = SeenByC(t, sent[i])
       /\ phase = "callback" => got[i] = SeenByJs(t, sent[i])

\* Results arrive, too: of a callback (readValue on the closure's result) and
\* of a native function (wrapValue on the slot of doInvoke).
ResultsArrive ==
  LET t == sig.result IN
  t # "void" =>
    /\ phase = "callbackResult" /\ Defined(t, sent[1]) => got[1] = SeenByC(t, sent[1])
    /\ phase = "result" => got[1] = SeenByJs(t, sent[1])
=============================================================================
