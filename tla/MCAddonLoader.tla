--------------------------- MODULE MCAddonLoader ---------------------------
(* Small instances of AddonLoader for TLC.                                 *)
EXTENDS AddonLoader, TLC

CONSTANTS modern, legacy, old, symbol

Kind(self, context, leg, version, callback) ==
  [self |-> self, context |-> context, legacy |-> leg, version |-> version,
   callback |-> callback]

\* A context-aware addon; one that is not; one built for another version of
\* Node.js; one that only exports its initializer.
Addons ==
  modern :> Kind(TRUE, TRUE, FALSE, TRUE, FALSE) @@
  legacy :> Kind(TRUE, FALSE, TRUE, TRUE, FALSE) @@
  old :> Kind(TRUE, TRUE, FALSE, FALSE, FALSE) @@
  symbol :> Kind(FALSE, FALSE, FALSE, TRUE, TRUE)

Symmetric == Permutations(Threads)
=============================================================================
