-------------------------- MODULE MCBuiltinLoader --------------------------
(* A small instance of BuiltinLoader for TLC: one module of each kind.     *)
EXTENDS BuiltinLoader
=============================================================================
