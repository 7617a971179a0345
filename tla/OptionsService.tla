--------------------------- MODULE OptionsService ---------------------------
(***************************************************************************)
(* What the options binding promises: an environment that asks for its     *)
(* option values gets, in one step, either its answer, which is the same   *)
(* whoever else asks and whenever it asks, or a refusal.                   *)
(***************************************************************************)
CONSTANTS Environments, Answer, Refused

VARIABLES asking, told

Ask(e) == e \notin asking /\ asking' = asking \cup {e} /\ UNCHANGED told

Tell(e) ==
  /\ e \in asking /\ asking' = asking \ {e}
  /\ \E reply \in {Answer[e], Refused} : told' = [told EXCEPT ![e] = reply]

Init == asking = {} /\ told = [e \in Environments |-> Refused]

Next == \E e \in Environments : Ask(e) \/ Tell(e)

Spec == Init /\ [][Next]_<<asking, told>>
=============================================================================
