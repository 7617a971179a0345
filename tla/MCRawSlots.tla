----------------------------- MODULE MCRawSlots -----------------------------
(* Small instances of RawSlots for TLC: bytes of four values, so that a     *)
(* 64-bit integer has 65536.                                                *)
EXTENDS RawSlots

Sig(params, result) == [params |-> params, result |-> result]

\* Every type before and after another one, and as a result.
AllSignatures ==
  {Sig(<<t, u>>, t) : t \in Types \ {"void"}, u \in {"uint8", "sint64", "float"}}
    \cup {Sig(<<>>, "void"), Sig(<<"pointer", "uint64">>, "void")}

\* Integers below int32, in int32, above it but in uint32, above int64.
Edges == {-129, -1, 2, 200, 65535}
=============================================================================
