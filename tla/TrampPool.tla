----------------------------- MODULE TrampPool ------------------------------
(***************************************************************************)
(* What static trampolines promise to the closures: every closure gets an  *)
(* entry point of its own, that entry point starts to enter the closure    *)
(* when the closure is bound to it, and goes on doing so until the closure *)
(* gives it back.                                                          *)
(***************************************************************************)
CONSTANTS Closures, Slots, NULL

VARIABLES
  slot,   \* the entry point each closure holds, or NULL
  enters  \* the closure each held entry point enters, or NULL

vars == <<slot, enters>>

Init == /\ slot = [c \in Closures |-> NULL]
        /\ enters = [s \in Slots |-> NULL]

Acquire(c) ==
  /\ slot[c] = NULL
  /\ \E s \in Slots : /\ \A d \in Closures : slot[d] # s
                      /\ slot' = [slot EXCEPT ![c] = s]
  /\ UNCHANGED enters

Bind(c) ==
  /\ slot[c] # NULL
  /\ enters' = [enters EXCEPT ![slot[c]] = c]
  /\ UNCHANGED slot

Release(c) ==
  /\ slot[c] # NULL
  /\ slot' = [slot EXCEPT ![c] = NULL]
  /\ enters' = [enters EXCEPT ![slot[c]] = NULL]

Next == \E c \in Closures : Acquire(c) \/ Bind(c) \/ Release(c)

Spec == Init /\ [][Next]_vars
=============================================================================
