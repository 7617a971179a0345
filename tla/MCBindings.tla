----------------------------- MODULE MCBindings -----------------------------
(* A small instance of Bindings for TLC: a main thread and its worker, an  *)
(* allowed internal binding whose name two linked ones have too, and an    *)
(* internal one that is not allowed.                                       *)
EXTENDS Bindings

CONSTANTS main, worker, fs, ffi, linked_fs, linked_ffi, extra_fs

MCParent == [e \in {main, worker} |-> IF e = worker THEN main ELSE None]
MCModules == {fs, ffi, linked_fs, linked_ffi, extra_fs}
MCName ==
  [m \in MCModules |->
     CASE m \in {fs, linked_fs, extra_fs} -> "fs" [] m \in {ffi, linked_ffi} -> "ffi"]
MCExports ==
  [m \in MCModules |->
     CASE m = extra_fs -> "function" [] m = linked_ffi -> "no entry point" [] OTHER -> "object"]
=============================================================================
