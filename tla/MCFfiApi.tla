------------------------------ MODULE MCFfiApi ------------------------------
(* Small instances of FfiApi for TLC.                                      *)
EXTENDS FfiApi, TLC

Found(n) == [found |-> TRUE, optional |-> FALSE, typed |-> TRUE, nargs |-> n]
Badly == [found |-> TRUE, optional |-> FALSE, typed |-> FALSE, nargs |-> 0]
Missing == [found |-> FALSE, optional |-> FALSE, typed |-> TRUE, nargs |-> 0]
Optional == [found |-> FALSE, optional |-> TRUE, typed |-> TRUE, nargs |-> 0]

\* Two functions; a second definition that makes the constructor throw when
\* the first one has its invoker.
CallDefMaps == {<<Found(1), Found(0)>>, <<Found(0), Badly>>}

\* Every way the constructor's loop can go.
FairDefMaps == {<<>>, <<Optional, Found(0)>>, <<Found(0), Missing>>, <<Badly, Found(0)>>, <<Found(0), Found(0)>>}

Symmetric == Permutations(Objs)
=============================================================================
