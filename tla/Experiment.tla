----------------------------- MODULE Experiment -----------------------------
(***************************************************************************)
(* What one experiment promises the campaign: its worker hands in at most  *)
(* one output, made of a whole report of the plugin or of none at all, and *)
(* then ends; it may end without.                                          *)
(***************************************************************************)
VARIABLES phase, result

Init == phase = "running" /\ result = "none"

HandIn ==
  /\ phase = "running" /\ phase' = "reported"
  /\ result' \in {"empty", "whole"}

End ==
  /\ phase \in {"running", "reported"} /\ phase' = "ended"
  /\ UNCHANGED result

Next == HandIn \/ End

Spec == Init /\ [][Next]_<<phase, result>>
=============================================================================
