----------------------------- MODULE MCCampaign -----------------------------
(* Instances of Campaign for TLC. *)
EXTENDS Campaign

(* Faults that differ in their mask, of which no two print alike. *)
Brief == [f \in Faults |-> <<1>>]
Distinct == [f \in Faults |-> <<f>>]
=============================================================================
