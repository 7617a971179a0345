---------------------------- MODULE MCTrampTable ----------------------------
(* Small instances of TrampTable for TLC.                                  *)
EXTENDS TrampTable, TLC

Symmetric == Permutations(Closures) \cup Permutations(Tables)
=============================================================================
